---- MODULE Spec2Model ----
(***************************************************************************)
(* Model of the quantitative core of Asset_Allocation_Tool.                *)
(*                                                                         *)
(* BacktestEngine.run_backtest (src/src/backtest_engine.py) is a pure      *)
(* function of the cleaned price panel df_clean and of its parameters.     *)
(* The panel is built day by day (AppendRow), then RunBacktest applies the *)
(* whole pipeline of run_backtest to it and stores the frames it computes. *)
(* RunBacktestOnStore runs it from the table stock_prices instead.         *)
(*                                                                         *)
(* PortfolioOptimizer.optimize (src/src/optimizer.py) is modelled step by  *)
(* step, one step per call of the solver, on the statistics of a returns   *)
(* frame; Phase6 is what main does with the value optimize returned.       *)
(*                                                                         *)
(* Numbers are exact rationals <<n, d>> with d > 0 in lowest terms; the    *)
(* pandas missing value NaN is the pair <<0, 0>>.                          *)
(***************************************************************************)
EXTENDS Integers, Sequences, FiniteSets, TLC

\* ------------------------------------------------------------------ bounds
\* number of explicit (freely chosen) trading days after the warm-up days
MaxTail == 3
\* the values of the arguments top_n and mom_window of run_backtest
TopNs == {1, 2}
MomWindows == {1, 2}
\* the tradable columns of df_clean and the levels a close price takes
Columns == <<"A", "B", "C">>
Tickers == {Columns[i] : i \in 1 .. Len(Columns)}
PriceLevels == {1, 2}
\* the tickers the price store may hold, in the order the DISTINCT query lists
\* them, and how many of them are downloaded
StoreOrder == <<"B", "QQQ", "A", "SPY">>
StoreTickers == {StoreOrder[i] : i \in 1 .. Len(StoreOrder)}
MaxStored == 3
\* the number of days of a stored price history, and the values of the
\* argument min_history_days of run_backtest
HistoryLengths == {126, 127}
MinHistories == {1, 127}
\* the solver of the optimizer searches the weights that are multiples of
\* 1 / GridSteps
GridRefine == 2
GridSteps == 10 * GridRefine
\* the rates _get_risk_free_rate may fetch, in hundredths, and the values a
\* uniform draw of the Monte Carlo loop may take, in quarters
FetchedRates == {1}
DrawQuarters == {0, 3}
\* the annualised statistics of the returns frames of the optimizer, in
\* hundredths: variances of the first asset, covariances of the first two
\* assets, and mean returns of the first two assets
Variances == {4, 16}
Covariances == {0, 1}
MeanPairs == {<<3, 2>>, <<2, 3>>, <<-2, -1>>}
\* the positions of a long ticker list that random.sample may leave out
SampleDrops == {1, 2, 51}
\* the table stock_prices row by row: the tickers of a download, the times
\* of the rows yfinance returns (in index order; the second is later on the
\* day of the first), their closes, and how many rows are written in all
TableTickers == {"AAPL", "SPY"}
StampOrder ==
  <<[day |-> 1, late |-> FALSE], [day |-> 1, late |-> TRUE],
    [day |-> 2, late |-> FALSE]>>
TableCloses == {1, 2}
MaxWritten == 3
\* the tickers the tests of fix_ibkr_symbol pass: the letters of a ticker and
\* how long it is
Letters == {"A", "B", "-"}
MaxSymbolLen == 4
\* the tickers a listing of the store may hold next to its stocks, and how
\* many tickers a listing has
ListedNames == {"AAPL", "IVV", "DGS10", "DGS3MO", "SPY"}
MaxListed == 3
\* the Ticker cells a portfolio file may hold, and how many rows it has
CsvTickers == {"AAPL", " aapl", "MSFT"}
MaxCsvRows == 2
\* values of mom_window as long as a stored history and longer: the default
\* of run_backtest and the largest the slider of app.py offers
LongMomWindows == {126, 252}

\* ------------------------------------------------------- program constants
\* spy.rolling(window=200)
MA_WINDOW == 200
\* len(df_clean) < 126
MIN_OVERLAP == 126
\* the warm-up days: one day short of the first defined moving average
Warm == MA_WINDOW - 1
\* returns.shape[1] < 2 or len(returns) < 60
MIN_ASSETS == 2
MIN_RETURNS == 60
\* cum_strat = (1 + net_strat_ret).cumprod() * 100
NAV_START == 100
\* np.linspace(min_ret, max_ret * 1.1, 20)
FRONTIER_POINTS == 20
\* for i in range(5000)
MC_ITERS == 5000
\* if len(all_tickers) > 50: random.sample(all_tickers, 50)
MAX_TICKERS == 50

\* ------------------------------------------------------------ arithmetic
RECURSIVE GCD(_, _)
GCD(a, b) == IF b = 0 THEN a ELSE GCD(b, a % b)

Abs(x) == IF x < 0 THEN -x ELSE x

NaN == <<0, 0>>
IsNaN(x) == x[2] = 0

\* the rational n/d in lowest terms, d > 0
Frac(n, d) ==
  IF d = 1 THEN <<n, 1>>
  ELSE IF n = 0 THEN <<0, 1>>
  ELSE LET g == GCD(Abs(n), Abs(d))
           s == IF d < 0 THEN -1 ELSE 1
       IN  <<(s * n) \div g, (s * d) \div g>>

RInt(n) == <<n, 1>>
Zero == RInt(0)
One == RInt(1)

\* float arithmetic: NaN propagates
RAdd(x, y) == IF IsNaN(x) \/ IsNaN(y) THEN NaN
              ELSE Frac(x[1] * y[2] + y[1] * x[2], x[2] * y[2])
RSub(x, y) == IF IsNaN(x) \/ IsNaN(y) THEN NaN
              ELSE Frac(x[1] * y[2] - y[1] * x[2], x[2] * y[2])
RMul(x, y) == IF IsNaN(x) \/ IsNaN(y) THEN NaN
              ELSE Frac(x[1] * y[1], x[2] * y[2])
\* 0/0 is NaN; a nonzero value is never divided by zero here (close prices
\* are positive, and a selected name makes its row sum positive)
RDiv(x, y) == IF IsNaN(x) \/ IsNaN(y) \/ y[1] = 0 THEN NaN
              ELSE Frac(x[1] * y[2], x[2] * y[1])
RAbs(x) == <<Abs(x[1]), x[2]>>
\* float comparisons: False when an operand is NaN
RGt(x, y) == ~IsNaN(x) /\ ~IsNaN(y) /\ x[1] * y[2] > y[1] * x[2]
RLe(x, y) == ~IsNaN(x) /\ ~IsNaN(y) /\ x[1] * y[2] <= y[1] * x[2]

\* Series.fillna(v)
FillNa(x, v) == IF IsNaN(x) THEN v ELSE x

\* DataFrame.sum(axis=1) over the first k columns: NaN entries are skipped
RECURSIVE SumSkipNa(_, _)
SumSkipNa(f, k) ==
  IF k = 0 THEN Zero
  ELSE RAdd(SumSkipNa(f, k - 1), FillNa(f[Columns[k]], Zero))

\* a row (by column) or a frame (by day) as an explicit table of its values
RowOf(f) == f @@ <<>>
FrameOf(f) == f @@ <<>>

\* DataFrame.shift(k) of a stored frame F of the days 0 .. n-1: day t takes the
\* row of day t - k, a row of NaN where there is no such day
NaNRow == [c \in Tickers |-> NaN]
Shift(F, k, t, n) == IF t - k >= 0 /\ t - k < n THEN F[t - k] ELSE NaNRow

\* ------------------------------------------------------------ price panel
\* df_clean: pan.warm leading days all equal to the row pan.base, followed by
\* the explicit days pan.tail; pan.cols are its price columns (price_cols). A
\* ticker the history filter dropped has no column: its entries read NaN, which
\* rank, sum and fillna treat the way they treat a column that is not there.
PLen(pan) == pan.warm + Len(pan.tail)
Days(pan) == 0 .. (PLen(pan) - 1)
RowAt(pan, t) == IF t < pan.warm THEN pan.base ELSE pan.tail[t - pan.warm + 1]
\* prices[c] and spy of day t, as floats
Price(pan, t, c) ==
  IF c \in pan.cols THEN RInt(RowAt(pan, t).px[c]) ELSE NaN
Spy(pan, t) == RInt(RowAt(pan, t).spy)
\* a shift that pads the missing days with the first close instead of NaN
PriceShift_Padded(pan, k, t, c) ==
  Price(pan, IF t - k >= 0 THEN t - k ELSE 0, c)
\* prices.shift(k)[c] of day t
PriceShift(pan, k, t, c) ==
  IF t - k >= 0 /\ t - k < PLen(pan) THEN Price(pan, t - k, c) ELSE NaN

\* prices.pct_change(k) = prices / prices.shift(k) - 1 (df_clean has no gaps
\* to pad)
PctChange(pan, k, t, c) ==
  RSub(RDiv(Price(pan, t, c), PriceShift(pan, k, t, c)), One)

\* sum of spy over the days a..b
RECURSIVE SpySum(_, _, _)
SpySum(pan, a, b) ==
  IF b < a THEN 0
  ELSE IF b < pan.warm THEN (b - a + 1) * pan.base.spy
  ELSE IF a = b THEN RowAt(pan, a).spy
  ELSE LET mid == (a + b) \div 2
       IN  SpySum(pan, a, mid) + SpySum(pan, mid + 1, b)

\* spy.rolling(window=200).mean(): NaN until 200 days are in the window
spy_ma200(pan, t) ==
  IF t + 1 < MA_WINDOW THEN NaN
  ELSE Frac(SpySum(pan, t - MA_WINDOW + 1, t), MA_WINDOW)

\* (spy > spy_ma200).astype(int)
RawGate(pan, t) == IF RGt(Spy(pan, t), spy_ma200(pan, t)) THEN One ELSE Zero

\* the gate shifted the wrong way: shift(-1) reads the regime of the next day
MarketSignal_NextDay(pan, t) ==
  FillNa(IF t + 1 >= 0 /\ t + 1 < PLen(pan) THEN RawGate(pan, t + 1) ELSE NaN,
         One)
\* the gate without its shift: the regime of the same day
MarketSignal_SameDay(pan, t) == RawGate(pan, t)
\* market_signal = (spy > spy_ma200).astype(int).shift(1).fillna(1)
MarketSignal(pan, t) ==
  FillNa(IF t - 1 >= 0 /\ t - 1 < PLen(pan) THEN RawGate(pan, t - 1) ELSE NaN,
         One)

\* momentum = prices.pct_change(mom_window), one row of it
Momentum(pan, w, t) == RowOf([c \in Tickers |-> PctChange(pan, w, t, c)])

\* the sum of the positions a .. b of a sorted row
RECURSIVE SumRange(_, _)
SumRange(a, b) == IF b < a THEN 0 ELSE b + SumRange(a, b - 1)

\* rank(ascending=True): the lowest momentum takes rank 1
Ranks_Ascending(m) ==
  RowOf([c \in Tickers |->
           IF IsNaN(m[c]) THEN NaN
           ELSE LET g == Cardinality({d \in Tickers : RGt(m[c], m[d])})
                    e == Cardinality({d \in Tickers : m[d] = m[c]})
                IN  Frac(SumRange(g + 1, g + e), e)])
\* rank(method='min'): the names of a tie all take the first position g+1
Ranks_MinMethod(m) ==
  RowOf([c \in Tickers |->
           IF IsNaN(m[c]) THEN NaN
           ELSE RInt(Cardinality({d \in Tickers : RGt(m[d], m[c])}) + 1)])
\* ranks = momentum.rank(axis=1, ascending=False): NaN stays NaN; the names
\* of a tie share the average of the positions g+1 .. g+e they occupy
Ranks(m) ==
  RowOf([c \in Tickers |->
           IF IsNaN(m[c]) THEN NaN
           ELSE LET g == Cardinality({d \in Tickers : RGt(m[d], m[c])})
                    e == Cardinality({d \in Tickers : m[d] = m[c]})
                IN  Frac(SumRange(g + 1, g + e), e)])

\* raw_signals = (ranks <= top_n).astype(int)
RawSignals(ranks, n) ==
  RowOf([c \in Tickers |-> IF RLe(ranks[c], RInt(n)) THEN One ELSE Zero])

\* the selection mask used as weights, without the division by the row sum
RawWeights_NoDivision(pan, n, w, t) ==
  RawSignals(Ranks(Momentum(pan, w, t)), n)
\* raw_weights = raw_signals.div(row_sums, axis=0).fillna(0), one row
RawWeights(pan, n, w, t) ==
  LET raw_signals == RawSignals(Ranks(Momentum(pan, w, t)), n)
      row_sum == SumSkipNa(raw_signals, Len(Columns))
  IN  RowOf([c \in Tickers |-> FillNa(RDiv(raw_signals[c], row_sum), Zero)])

\* final_weights = raw_weights.mul(market_signal, axis=0), one row
Gated(rw, ms) == RowOf([c \in Tickers |-> RMul(rw[c], ms)])
FinalWeights(pan, n, w, t) ==
  Gated(RawWeights(pan, n, w, t), MarketSignal(pan, t))

\* stock_daily_ret = prices.pct_change().fillna(0)
StockDailyRet(pan, t, c) == FillNa(PctChange(pan, 1, t, c), Zero)

\* the weights of day t applied to the returns of the same day
GrossStratRet_NoLag(fw, pan, t) ==
  SumSkipNa([c \in Tickers |-> RMul(fw[t][c], StockDailyRet(pan, t, c))],
            Len(Columns))
\* gross_strat_ret = (final_weights.shift(1) * stock_daily_ret).sum(axis=1)
GrossStratRet(fw, pan, t) ==
  LET lagged == Shift(fw, 1, t, PLen(pan))
      prod == [c \in Tickers |-> RMul(lagged[c], StockDailyRet(pan, t, c))]
  IN  SumSkipNa(prod, Len(Columns))

\* the weight deltas summed with their sign, without abs
Turnover_Signed(fw, pan, t) ==
  LET cur == fw[t]
      prev == Shift(fw, 1, t, PLen(pan))
  IN  SumSkipNa([c \in Tickers |-> FillNa(RSub(cur[c], prev[c]), Zero)],
                Len(Columns))
\* turnover = abs(final_weights - final_weights.shift(1)).fillna(0).sum(axis=1)
Turnover(fw, pan, t) ==
  LET cur == fw[t]
      prev == Shift(fw, 1, t, PLen(pan))
      delta == [c \in Tickers |-> FillNa(RAbs(RSub(cur[c], prev[c])), Zero)]
  IN  SumSkipNa(delta, Len(Columns))

\* cost_rate = 0.001
cost_rate == Frac(1, 1000)
\* net_strat_ret = gross_strat_ret - turnover * cost_rate, one day
NetStratRet(gross, turn, t) == RSub(gross[t], RMul(turn[t], cost_rate))

\* rf = 0.04 and the 252 trading days of a year
rf == Frac(4, 100)
TRADING_DAYS == 252
\* excess_ret = net_strat_ret - (rf / 252), one day
ExcessRet(net, t) == RSub(net[t], RDiv(rf, RInt(TRADING_DAYS)))

\* x + y over the least common denominator
RAddLcm(x, y) ==
  IF IsNaN(x) \/ IsNaN(y) THEN NaN
  ELSE LET g == GCD(x[2], y[2])
       IN  Frac(x[1] * (y[2] \div g) + y[1] * (x[2] \div g),
                (x[2] \div g) * y[2])
\* the sum of the stored series F over the days a .. b
RECURSIVE SeriesSum(_, _, _)
SeriesSum(F, a, b) ==
  IF b < a THEN Zero
  ELSE IF a = b THEN F[a]
  ELSE LET mid == (a + b) \div 2
       IN  RAddLcm(SeriesSum(F, a, mid), SeriesSum(F, mid + 1, b))

\* Series.mean() of the stored series F of n days
SeriesMean(F, n) == RDiv(SeriesSum(F, 0, n - 1), RInt(n))
\* Series.std() > 0 for the stored series F of n days: the sample standard
\* deviation (ddof = 1) is NaN for fewer than two days, which compares False,
\* and otherwise is 0 exactly when every day holds the same value
StdPositive(F, n) == n >= 2 /\ \E t \in 1 .. (n - 1) : F[t] # F[0]

\* the float (mean / std) * sqrt(252), kept as its exact numerator and the
\* kind of its denominator: "std" a positive std, "0" a zero or NaN std
Ratio(m, positive) == [num |-> m, den |-> IF positive THEN "std" ELSE "0"]
\* the literal 0
ZeroRatio == [num |-> Zero, den |-> "1"]

\* the ratio computed without looking at the denominator
Sharpe_Unguarded(net, n) ==
  LET excess_ret == FrameOf([t \in 0 .. (n - 1) |-> ExcessRet(net, t)])
  IN  Ratio(SeriesMean(excess_ret, n), StdPositive(excess_ret, n))
\* sharpe = (excess_ret.mean() / excess_ret.std()) * np.sqrt(252)
\*          if excess_ret.std() > 0 else 0
Sharpe(net, n) ==
  LET excess_ret == FrameOf([t \in 0 .. (n - 1) |-> ExcessRet(net, t)])
  IN  IF StdPositive(excess_ret, n)
      THEN Ratio(SeriesMean(excess_ret, n), TRUE)
      ELSE ZeroRatio

\* the running product of 1 + net over the days a .. b, started at the value
\* start, as the list of its values
RECURSIVE CumProd(_, _, _, _)
CumProd(net, a, b, start) ==
  IF a = b THEN <<RMul(start, RAdd(One, net[a]))>>
  ELSE LET mid == (a + b) \div 2
           left == CumProd(net, a, mid, start)
       IN  left \o CumProd(net, mid + 1, b, left[Len(left)])
\* cum_strat = (1 + net_strat_ret).cumprod() * 100 over the first n days
cum_strat(net, n) ==
  IF n = 0 THEN <<>>
  ELSE LET cumprod == CumProd(net, 0, n - 1, One)
       IN  [i \in 1 .. n |-> RMul(cumprod[i], RInt(NAV_START))]

\* ------------------------------------------------- price store and universe
\* t is an entry of the list L
InList(t, L) == \E i \in 1 .. Len(L) : L[i] = t
\* [t for t in raw if t not in ex]
FilterOut(raw, ex) == SelectSeq(raw, LAMBDA t : ~InList(t, ex))

basic_exclude ==
  <<"SPY", "QQQ", "TLT", "GLD", "IWM", "USDOLLAR", "^GSPC", "^VIX">>
macro_exclude ==
  <<"DGS10", "T5YIE", "T10Y2Y", "BAMLC0A0CM", "VIXCLS", "DCOILWTICO",
    "DTWEXBGS", "CPIAUCSL", "M2SL", "UNRATE">>
exclude == basic_exclude \o macro_exclude
\* the exclude list of PortfolioOptimizer._get_all_tickers
optimizer_exclude ==
  <<"SPY", "QQQ", "TLT", "GLD", "IWM", "USDOLLAR", "^GSPC", "^VIX", "^IXIC",
    "IVV", "VOO", "AGG", "BND", "LQD", "HYG", "EEM", "EFA", "SLV", "USO",
    "SHY", "IEF", "TIP", "VNQ", "XLK", "XLF", "XLV", "XLE", "XLY", "XLP">>

\* src/config.py: the unified exclusion lists
ETF_BLOCKLIST ==
  <<"SPY", "QQQ", "TLT", "GLD", "IWM", "USDOLLAR", "^GSPC", "^VIX", "^IXIC",
    "IVV", "VOO", "AGG", "BND", "LQD", "HYG", "EEM", "EFA", "SLV", "USO",
    "SHY", "IEF", "TIP", "VNQ", "XLK", "XLF", "XLV", "XLE", "XLY", "XLP">>
MACRO_BLOCKLIST ==
  <<"DGS10", "T5YIE", "T10Y2Y", "BAMLC0A0CM", "VIXCLS", "DCOILWTICO",
    "DTWEXBGS", "CPIAUCSL", "M2SL", "UNRATE", "DGS3MO">>
\* list(set(ETF_BLOCKLIST + MACRO_BLOCKLIST)): the names, in no order
FULL_BLOCKLIST ==
  {(ETF_BLOCKLIST \o MACRO_BLOCKLIST)[i] :
     i \in 1 .. Len(ETF_BLOCKLIST \o MACRO_BLOCKLIST)}

\* a filter that keeps the listed names instead of dropping them
get_universe_KeepsListed(raw, ok) ==
  IF ok THEN SelectSeq(raw, LAMBDA t : InList(t, exclude))
  ELSE <<"AAPL", "MSFT">>
\* BacktestEngine._get_universe on the raw list the DISTINCT query returns;
\* ok = FALSE: the query raised and the hard-coded list is returned
get_universe(raw, ok) ==
  IF ok THEN FilterOut(raw, exclude) ELSE <<"AAPL", "MSFT">>
\* PortfolioOptimizer._get_all_tickers
get_all_tickers(raw, ok) ==
  IF ok THEN FilterOut(raw, optimizer_exclude)
  ELSE <<"AAPL", "MSFT", "NVDA", "JPM">>

\* The table stock_prices: st[t] is the history of ticker t, its closes of the
\* st[t].len most recent days (len = 0: no row of t), less the day HoleAge(t)
\* when st[t].gap. A day is named by its age, 0 the latest.
NoHistory == [len |-> 0, gap |-> FALSE]
Histories == [len : HistoryLengths, gap : BOOLEAN]
HoleAge(t) == CHOOSE i \in 1 .. Len(StoreOrder) : StoreOrder[i] = t
\* the days on which the store has a close of t
DatesOf(t, h) == {a \in 0 .. (h.len - 1) : ~(h.gap /\ a = HoleAge(t))}
\* SELECT DISTINCT ticker FROM stock_prices
RawTickers(st) == SelectSeq(StoreOrder, LAMBDA t : st[t].len > 0)

\* a frame is the function from its columns to the days on which the column
\* holds a value; None and the empty frame have no column
NoFrame == <<>>
\* DataManager.get_aligned_data(tickers); ok = FALSE: the query raised
get_aligned_data(st, tickers, ok) ==
  LET available ==
        {t \in StoreTickers : InList(t, tickers) /\ st[t].len > 0}
  IN  IF ~ok \/ available = {} THEN NoFrame
      ELSE [c \in available |-> DatesOf(c, st[c])] @@ <<>>

\* the columns that pass the history filter: SPY always, a ticker when it has
\* at least h closes
ValidCols(raw_df, h) ==
  {c \in DOMAIN raw_df : c = "SPY" \/ Cardinality(raw_df[c]) >= h}
\* the index of raw_df[valid_cols] without the dropna
CleanDays_NoDropna(raw_df, valid_cols) ==
  UNION {raw_df[c] : c \in DOMAIN raw_df}
\* the index of df_clean = raw_df[valid_cols].dropna(): the days of raw_df on
\* which every valid column holds a value
CleanDays(raw_df, valid_cols) ==
  {a \in UNION {raw_df[c] : c \in DOMAIN raw_df} :
     \A c \in valid_cols : a \in raw_df[c]}
\* price_cols: the columns of df_clean that are neither factors nor SPY
PriceCols(valid_cols) == valid_cols \ {"smb", "hml", "mom", "mkt", "SPY"}
\* pd.Series(100, index=prices.index)
SPY_DEFAULT == 100

\* ------------------------------------------------------ portfolio optimizer
\* a returns frame as optimize sees it: the names of its price columns, the
\* number of its rows, and the annualised mean returns and covariances of the
\* columns, in hundredths; NoData is the frame get_aligned_data did not return
NoData == [assets |-> <<>>, rows |-> 0, mean |-> <<>>, cov |-> <<>>]
Market(names, n, mu, c) == [assets |-> names, rows |-> n, mean |-> mu, cov |-> c]

\* the list L without its entry i
Remove(L, i) == SubSeq(L, 1, i - 1) \o SubSeq(L, i + 1, Len(L))
\* target_tickers: all_tickers, or for more than 50 of them the lists
\* random.sample(all_tickers, 50) may return (kept in the order of the list)
\* a draw made whatever the length of the list
Sample_AnyLength(all) ==
  IF Len(all) <= 1 THEN {all}
  ELSE {Remove(all, i) : i \in SampleDrops \cap (1 .. Len(all))}
RECURSIVE Sample(_)
Sample(all) ==
  IF Len(all) <= MAX_TICKERS THEN {all}
  ELSE UNION {Sample(Remove(all, i)) : i \in SampleDrops \cap (1 .. Len(all))}

\* the positions of the columns of frame m that are among tickers, in order
RECURSIVE Positions(_, _, _)
Positions(m, tickers, n) ==
  IF n = 0 THEN <<>>
  ELSE IF InList(m.assets[n], tickers)
       THEN Append(Positions(m, tickers, n - 1), n)
       ELSE Positions(m, tickers, n - 1)
Pick(L, idx) == IF Len(L) = 0 THEN <<>> ELSE [j \in 1 .. Len(idx) |-> L[idx[j]]]
\* the returns of the price columns of get_aligned_data(tickers) when the
\* store holds the frame m: NoData when it has no row of any of them
ReturnsFrame(m, tickers) ==
  LET idx == Positions(m, tickers, Len(m.assets))
  IN  IF Len(idx) = 0 THEN NoData
      ELSE Market(Pick(m.assets, idx), m.rows, Pick(m.mean, idx),
                  Pick([i \in 1 .. Len(m.cov) |-> Pick(m.cov[i], idx)], idx))

num_assets(m) == Len(m.assets)
asset_names(m) == {m.assets[i] : i \in 1 .. Len(m.assets)}
mean_returns(m, i) == Frac(m.mean[i], 100)

\* the hundredths of a rate
Hundredths(x) == (x[1] * 100) \div x[2]

RECURSIVE Dot(_, _, _)
Dot(x, y, n) == IF n = 0 THEN 0 ELSE Dot(x, y, n - 1) + x[n] * y[n]

\* a weight vector on the grid is kept as its numerators k over GridSteps
\* np.sum(weights * mean_returns), in units of 1 / (100 * GridSteps)
PortRet(m, k) == Dot(k, m.mean, Len(k))
\* np.dot(weights.T, np.dot(cov_matrix, weights)), in units of
\* 1 / (100 * GridSteps^2)
PortVar(m, k) ==
  Dot(k, [i \in 1 .. Len(k) |-> Dot(m.cov[i], k, Len(k))], Len(k))

\* the objective that leaves the covariances out
portfolio_volatility_NoCov(m, k) == Dot(k, k, Len(k))
\* portfolio_volatility(weights), kept as its square: the square root is
\* increasing, so both order the weight vectors alike
portfolio_volatility(m, k) == PortVar(m, k)

Sgn(n) == IF n > 0 THEN 1 ELSE IF n < 0 THEN -1 ELSE 0
Cmp(a, b) == Sgn(a - b)
\* what neg_sharpe_ratio needs of a weight vector: a the excess return
\* p_ret - rf_rate and v the variance, in the units above
SharpeKey(m, rate, k) ==
  [a |-> PortRet(m, k) - Hundredths(rate) * GridSteps, v |-> PortVar(m, k)]
\* the order of neg_sharpe_ratio, -(p_ret - rf_rate) / (p_vol + 1e-9), on two
\* weight vectors of keys p and q: 1 when p has the smaller value (the larger
\* ratio), -1 when q has, 0 when equal.  The ratios a / sqrt(v) are compared
\* through their signed squares; the term 1e-9 decides between equal ratios
\* (a / (s + e) is about a / s - e * a / s^2) and stands for the whole
\* denominator of a portfolio without variance
SharpeCmp(p, q) ==
  IF p.v = 0 /\ q.v = 0 THEN Cmp(p.a, q.a)
  ELSE IF p.v = 0 THEN (IF p.a # 0 THEN Sgn(p.a) ELSE -Sgn(q.a))
  ELSE IF q.v = 0 THEN (IF q.a # 0 THEN -Sgn(q.a) ELSE Sgn(p.a))
  ELSE LET c == Cmp(Sgn(p.a) * p.a * p.a * q.v, Sgn(q.a) * q.a * q.a * p.v)
       IN  IF c # 0 THEN c ELSE Cmp(q.a * p.v, p.a * q.v)

\* bounds = tuple((0.0, 1.0) for _ in range(num_assets)): short positions
\* allowed
bounds_AllowShort == [lo |-> -1, hi |-> 1]
bounds == [lo |-> 0, hi |-> 1]
\* constraints: np.sum(x) - 1 = 0
BUDGET == 1

\* the grid vectors of n weights within bounds whose numerators sum to total
RECURSIVE GridVectors(_, _)
GridVectors(n, total) ==
  IF n = 0 THEN (IF total = 0 THEN {<<>>} ELSE {})
  ELSE UNION {{<<k>> \o v : v \in GridVectors(n - 1, total - k)} :
              k \in (bounds.lo * GridSteps) .. (bounds.hi * GridSteps)}
\* the weight vectors the solver may return as a solution
Feasible(m) == GridVectors(num_assets(m), BUDGET * GridSteps)

\* sco.minimize(portfolio_volatility, ...) on success: the feasible vectors
\* of least objective
MinVolSolutions(m) ==
  LET F == Feasible(m)
      val == [k \in F |-> portfolio_volatility(m, k)] @@ <<>>
      best == CHOOSE b \in {val[k] : k \in F} : \A k \in F : b <= val[k]
  IN  {k \in F : val[k] = best}
\* sco.minimize(neg_sharpe_ratio, ...) on success
MaxSharpeSolutions(m, rate) ==
  LET F == Feasible(m)
      key == [k \in F |-> SharpeKey(m, rate, k)] @@ <<>>
  IN  {k \in F : \A l \in F : SharpeCmp(key[l], key[k]) <= 0}

\* the float weights of a grid vector
Weights(k) == [i \in 1 .. Len(k) |-> Frac(k[i], GridSteps)]
\* where a solve that does not converge stops: some vector that meets neither
\* the budget nor the bounds
Stopped(m) == [i \in 1 .. num_assets(m) |-> RInt(2)]
\* the outcomes of one call of sco.minimize: it raises, it returns without
\* success, or it returns one of the solutions sols with success
NotBound == [status |-> "raise", x |-> <<>>]
Minimize(m, sols) ==
  {NotBound, [status |-> "fail", x |-> Stopped(m)]}
    \cup {[status |-> "ok", x |-> Weights(k)] : k \in sols}

\* the branch taken whatever res.success says
Solved_IgnoreSuccess(res) == res.status # "raise"
\* the statement after sco.minimize is reached and res.success holds
Solved(res) == res.status = "ok"

\* np.sum(x * mean_returns) and x.T C x for float weights x
RECURSIVE RSum(_, _)
RSum(f, n) == IF n = 0 THEN Zero ELSE RAddLcm(RSum(f, n - 1), f[n])
RetOf(m, x) ==
  RSum([i \in 1 .. Len(x) |-> RMul(x[i], mean_returns(m, i))], Len(x))
VarOf(m, x) ==
  RSum([i \in 1 .. Len(x) |->
          RMul(x[i], RSum([j \in 1 .. Len(x) |->
                             RMul(Frac(m.cov[i][j], 100), x[j])], Len(x)))],
       Len(x))

\* pd.DataFrame({'Ticker': asset_names, 'Weight': x}): a row for every asset,
\* in the order of the columns of the returns frame
Table(m, x) ==
  [i \in 1 .. num_assets(m) |-> [Ticker |-> m.assets[i], Weight |-> x[i]]]
\* the row r put into the table sorted by falling weight, after the rows that
\* weigh as much
RECURSIVE InsertRow(_, _)
InsertRow(sorted, r) ==
  IF Len(sorted) = 0 THEN <<r>>
  ELSE IF RGt(r.Weight, sorted[1].Weight) THEN <<r>> \o sorted
  ELSE <<sorted[1]>> \o InsertRow(Tail(sorted), r)
\* df.sort_values('Weight', ascending=False); rows of equal weight keep the
\* order of the frame
RECURSIVE SortValues(_, _)
SortValues(tab, n) ==
  IF n = 0 THEN <<>> ELSE InsertRow(SortValues(tab, n - 1), tab[n])
\* the table that keeps its rows of weight up to 0.0001
Above_KeepAll(tab) == tab
\* df[df['Weight'] > 0.0001]
Above(tab) == SelectSeq(tab, LAMBDA r : RGt(r.Weight, Frac(1, 10000)))
\* df_mv, df_ms as stored in portfolios
Export(m, x) == Above(SortValues(Table(m, x), num_assets(m)))
\* the entry (vol, ret, label, color) of star_points, vol kept as its square
Star(m, x, label, color) ==
  [vol2 |-> VarOf(m, x), ret |-> RetOf(m, x), label |-> label, color |-> color]

NoTables == <<>>
\* portfolios[name] = tab
Put(p, name, tab) == (name :> tab) @@ p

\* no table is added when both solves failed
Backup_None(m, p) == p
\* C. the equal-weight table when no solve left a table
Backup(m, p) ==
  IF DOMAIN p = {}
  THEN Put(p, "weights_equal_backup.csv",
           Table(m, [i \in 1 .. num_assets(m) |-> Frac(1, num_assets(m))]))
  ELSE p

\* np.linspace(a, b, n), entry i of 1 .. n
Linspace(a, b, n) ==
  [i \in 1 .. n |-> RAddLcm(a, RMul(RSub(b, a), Frac(i - 1, n - 1)))]
RMax(x, y) == IF RGt(y, x) THEN y ELSE x
RECURSIVE MaxRet(_, _)
MaxRet(sp, n) == IF n = 1 THEN sp[1].ret ELSE RMax(MaxRet(sp, n - 1), sp[n].ret)
\* the frontier is entered when min_vol_val > 0 and max_ret_val > 0
FrontierEntered(mv, mr) == RGt(mv, Zero) /\ RGt(mr, Zero)
\* the levels that start at the first star and end at 1.1 times the last
target_returns_LastStar(sp) ==
  Linspace(sp[1].ret, RMul(sp[Len(sp)].ret, Frac(11, 10)), FRONTIER_POINTS)
\* target_returns = np.linspace(min_ret, max_ret * 1.1, 20)
target_returns(sp) ==
  LET min_ret == IF Len(sp) > 0 THEN sp[1].ret ELSE Zero
      max_ret == IF Len(sp) > 0 THEN MaxRet(sp, Len(sp)) ELSE Frac(1, 2)
  IN  Linspace(min_ret, RMul(max_ret, Frac(11, 10)), FRONTIER_POINTS)

\* a fully invested long-only portfolio can return trets: the level lies
\* between the least and the greatest mean return
Attainable(m, trets) ==
  /\ \E i \in 1 .. num_assets(m) : RLe(mean_returns(m, i), trets)
  /\ \E i \in 1 .. num_assets(m) : RLe(trets, mean_returns(m, i))

\* w = np.random.random(num_assets); w /= np.sum(w), for the draws d
Normalized(d) ==
  LET total == RSum(d, Len(d))
  IN  [i \in 1 .. Len(d) |-> RDiv(d[i], total)]
\* the vectors of n draws
DrawVectors(n) == [1 .. n -> {Frac(q, 4) : q \in DrawQuarters}]
\* the weights of the loop for i in range(5000), as runs of equal vectors:
\* iteration j draws d, every other iteration draws 1/2 for every asset
Cloud(d, j) ==
  LET half == [i \in 1 .. Len(d) |-> Frac(1, 2)]
      runs == <<[n |-> j, w |-> Normalized(half)],
                [n |-> 1, w |-> Normalized(d)],
                [n |-> MC_ITERS - j - 1, w |-> Normalized(half)]>>
  IN  SelectSeq(runs, LAMBDA r : r.n > 0)

\* ------------------------------------------------------------------ state
VARIABLES
  panel,            \* df_clean
  pc,               \* "idle" until run_backtest is called, then "done"
                    \* ("universe" after a call of _get_universe alone)
  top_n,            \* arguments of the call (0 before it)
  mom_window,
  result,           \* "pending", "None" (failure), "fig", or "raise" for an
                    \* exception that left run_backtest
  plot_raised,      \* a call of matplotlib raised inside _plot
  market_signal,    \* the frames run_backtest computed, by day
  raw_weights,
  final_weights,
  gross_strat_ret,
  turnover,
  net_strat_ret,
  sharpe,           \* metrics['sharpe'] (ZeroRatio before the run)
  store,            \* the table stock_prices
  db,               \* whether the two queries of the run succeeded
  min_history_days, \* argument of the call (0 before it)
  universe,         \* the list _get_universe returned
  raw_df,           \* the frame get_aligned_data returned
  stored,           \* the returns of every ticker the store lists
  previous,         \* what an earlier call of optimize used and returned
  all_tickers,      \* the list _get_all_tickers returned
  target_tickers,
  market,           \* the returns frame of optimize
  opc,              \* where optimize stands: "idle", "min_vol", "max_sharpe",
                    \* "frontier", "monte_carlo", "returned", then "saved"
                    \* ("all_tickers" after _get_all_tickers alone)
  rf_rate,
  res_mv,           \* what the two calls of sco.minimize returned
  res_ms,
  star_points,
  portfolios,
  min_vol_val,      \* kept as its square
  max_ret_val,
  frontier_targets, \* target_returns, empty when the frontier is not entered
  frontier_y,
  results,          \* the weights of the Monte Carlo loop
  returned,         \* the pair optimize returned
  fig_raised,       \* a call of matplotlib raised inside _plot of optimize
  saved,            \* what Phase 6 of main put into the report
  stock_prices,     \* the rows (date, ticker, close) of the table
  written,          \* every row update_stock_data handed to the table so far
  aligned,          \* what get_aligned_data returned since the last update
  symbol,           \* the ticker a test of tests/test_utils.py passes
  fixed,            \* what the test got from fix_ibkr_symbol(symbol)
  main_pc,          \* where main stands: "phase0" .. "phase6", "report", then
                    \* "end"; "returned" after the return of Phase 1
  db_exists,        \* the file quant_lab.db exists
  csv,              \* the file my_portfolio.csv
  my_portfolio,     \* the local variable of main
  handed,           \* the portfolios passed to Phase 3 and Phase 4
  ran,              \* the phases main entered, in order
  report            \* the reporter: html_content, the files in data/, how
                    \* often report.html was written, and what
                    \* generate_html returned

\* what a run on the price store reads and derives before the strategy
front == <<store, db, min_history_days, universe, raw_df>>

\* the state of the optimizer
optvars == <<stored, previous, all_tickers, target_tickers, market, opc, rf_rate, res_mv, res_ms, star_points, portfolios,
             min_vol_val, max_ret_val, frontier_targets, frontier_y, results,
             returned, fig_raised, saved>>

\* the table stock_prices row by row
tablevars == <<stock_prices, written, aligned>>
\* the state beyond one call of run_backtest and one call of optimize
\* the state of a test of fix_ibkr_symbol
testvars == <<symbol, fixed>>
\* the state of main
mainvars == <<main_pc, db_exists, csv, my_portfolio, handed, ran, report>>
beyond == <<tablevars, testvars, mainvars>>

vars == <<panel, pc, top_n, mom_window, result, plot_raised, market_signal,
          raw_weights, final_weights, gross_strat_ret, turnover,
          net_strat_ret, sharpe, front, optvars, beyond>>

frames == <<market_signal, raw_weights, final_weights, gross_strat_ret,
            turnover, net_strat_ret, sharpe>>

Rows == [px : [Tickers -> PriceLevels], spy : PriceLevels]
\* the warm-up row: every instrument flat at the lowest level
Lowest == CHOOSE p \in PriceLevels : \A q \in PriceLevels : p <= q
BaseRow == [px |-> [c \in Tickers |-> Lowest], spy |-> Lowest]

\* default_rf = 0.04
default_rf == Frac(4, 100)
NoReturn == [fig |-> "pending", portfolios |-> NoTables]
NothingSaved == [figure |-> FALSE, data |-> {}]
\* the table stock_prices right after CREATE TABLE, nothing read from it
NotRead == [status |-> "pending", rows |-> <<>>]
NoTable ==
  /\ stock_prices = {}
  /\ written = <<>>
  /\ aligned = NotRead
\* nothing has happened beyond the two calls
NotCalled == [status |-> "pending", value |-> <<>>]
NoTest ==
  /\ symbol = <<>>
  /\ fixed = NotCalled
\* my_portfolio before Phase 2
Unbound == [kind |-> "unbound", weights |-> <<>>]
\* ReportManager(run_dir): html_content holds the header only
EmptyReport ==
  [html_content |-> <<>>, data |-> {}, written |-> 0, path |-> "pending"]
NoCsv == [exists |-> FALSE, readable |-> FALSE, rows |-> <<>>]
\* main not started on a machine with the database file and without
\* portfolio file
MainIdle(exists, file) ==
  /\ main_pc = "phase0"
  /\ db_exists = exists
  /\ csv = file
  /\ my_portfolio = Unbound
  /\ handed = <<>>
  /\ ran = <<>>
  /\ report = EmptyReport
BeyondIdle == NoTable /\ NoTest /\ MainIdle(TRUE, NoCsv)
NoPrevious ==
  [all_tickers |-> <<>>, target_tickers |-> <<>>, market |-> NoData,
   rf_rate |-> Zero,
   res_mv |-> NotBound, res_ms |-> NotBound, returned |-> NoReturn]
\* optimize not called, the store holding the frame m
OptIdle(m) ==
  /\ stored = m
  /\ previous = NoPrevious
  /\ all_tickers = <<>>
  /\ target_tickers = <<>>
  /\ market = NoData
  /\ opc = "idle"
  /\ rf_rate = default_rf
  /\ res_mv = NotBound
  /\ res_ms = NotBound
  /\ star_points = <<>>
  /\ portfolios = NoTables
  /\ min_vol_val = Zero
  /\ max_ret_val = Zero
  /\ frontier_targets = <<>>
  /\ frontier_y = <<>>
  /\ results = <<>>
  /\ returned = NoReturn
  /\ fig_raised = FALSE
  /\ saved = NothingSaved

Init ==
  /\ panel = [warm |-> Warm, base |-> BaseRow, tail |-> <<>>, cols |-> Tickers]
  /\ pc = "idle"
  /\ top_n = 0
  /\ mom_window = 0
  /\ result = "pending"
  /\ plot_raised = FALSE
  /\ market_signal = <<>>
  /\ raw_weights = <<>>
  /\ final_weights = <<>>
  /\ gross_strat_ret = <<>>
  /\ turnover = <<>>
  /\ net_strat_ret = <<>>
  /\ sharpe = ZeroRatio
  /\ store = [t \in StoreTickers |-> NoHistory]
  /\ db = [list_ok |-> TRUE, read_ok |-> TRUE]
  /\ min_history_days = 0
  /\ universe = <<>>
  /\ raw_df = NoFrame
  /\ OptIdle(NoData)
  /\ BeyondIdle

\* the row of the last day of the panel
LastRow(pan) == RowAt(pan, PLen(pan) - 1)

\* one more trading day reaches the panel: instrument i closes at p, every
\* other instrument closes where it closed the day before
AppendRow(i, p) ==
  /\ pc = "idle"
  /\ Len(panel.tail) < MaxTail
  /\ LET last == LastRow(panel)
         r == IF i = "SPY" THEN [last EXCEPT !.spy = p]
              ELSE [last EXCEPT !.px[i] = p]
     IN  panel' = [panel EXCEPT !.tail = Append(@, r)]
  /\ UNCHANGED <<pc, top_n, mom_window, result, plot_raised, frames, front,
                 optvars, beyond>>

\* what _plot returns: the figure, or None when a call inside its try raised
Plot_Uncaught(raised) == IF raised THEN "raise" ELSE "fig"
Plot(raised) == IF raised THEN "None" ELSE "fig"

\* steps 3 to 6 of run_backtest on df_clean = pan: the frames, the metrics
\* and the figure
Strategy(pan, n, w) ==
  /\ market_signal' = FrameOf([t \in Days(pan) |-> MarketSignal(pan, t)])
  /\ raw_weights' = FrameOf([t \in Days(pan) |-> RawWeights(pan, n, w, t)])
  /\ final_weights' =
       FrameOf([t \in Days(pan) |-> Gated(raw_weights'[t], market_signal'[t])])
  /\ gross_strat_ret' =
       FrameOf([t \in Days(pan) |-> GrossStratRet(final_weights', pan, t)])
  /\ turnover' =
       FrameOf([t \in Days(pan) |-> Turnover(final_weights', pan, t)])
  /\ net_strat_ret' =
       FrameOf([t \in Days(pan) |->
                  NetStratRet(gross_strat_ret', turnover', t)])
  /\ sharpe' = Sharpe(net_strat_ret', PLen(pan))
  /\ \E raised \in BOOLEAN :
       /\ plot_raised' = raised
       /\ result' = Plot(raised)

\* run_backtest(top_n=n, mom_window=w) on df_clean = panel
RunBacktest(n, w) ==
  /\ pc = "idle"
  /\ pc' = "done"
  /\ top_n' = n
  /\ mom_window' = w
  /\ UNCHANGED <<panel, front, optvars, beyond>>
  /\ IF PLen(panel) < MIN_OVERLAP
     THEN /\ result' = "None"
          /\ UNCHANGED <<frames, plot_raised>>
     ELSE Strategy(panel, n, w)

Next ==
  \/ \E i \in Tickers \cup {"SPY"}, p \in PriceLevels : AppendRow(i, p)
  \/ \E n \in TopNs, w \in MomWindows : RunBacktest(n, w)

Spec == Init /\ [][Next]_vars
\* the same behaviours, named apart for the property that re-runs the
\* pipeline on altered panels
SpecLookAhead == Init /\ [][Next]_vars

\* ------------------------------------------- run_backtest on the price store
\* no price stored, no run made
InitStore ==
  /\ panel = [warm |-> 0, base |-> BaseRow, tail |-> <<>>, cols |-> {}]
  /\ pc = "idle"
  /\ top_n = 0
  /\ mom_window = 0
  /\ result = "pending"
  /\ plot_raised = FALSE
  /\ market_signal = <<>>
  /\ raw_weights = <<>>
  /\ final_weights = <<>>
  /\ gross_strat_ret = <<>>
  /\ turnover = <<>>
  /\ net_strat_ret = <<>>
  /\ sharpe = ZeroRatio
  /\ store = [t \in StoreTickers |-> NoHistory]
  /\ db = [list_ok |-> TRUE, read_ok |-> TRUE]
  /\ min_history_days = 0
  /\ universe = <<>>
  /\ raw_df = NoFrame
  /\ OptIdle(NoData)
  /\ BeyondIdle

\* DataManager.update_stock_data stores the history h of ticker t (every
\* close of this store is at the lowest level)
UpdateStockData(t, h) ==
  /\ pc = "idle"
  /\ store[t].len = 0
  /\ Cardinality({u \in StoreTickers : store[u].len > 0}) < MaxStored
  /\ store' = [store EXCEPT ![t] = h]
  /\ UNCHANGED <<panel, pc, top_n, mom_window, result, plot_raised, frames, db,
                 min_history_days, universe, raw_df, optvars, beyond>>

\* df_clean of k days with the columns valid_cols; without a column SPY the
\* benchmark is the constant series 100
CleanPanel(k, valid_cols) ==
  [warm |-> k,
   base |-> [px |-> [c \in Tickers |-> Lowest],
             spy |-> IF "SPY" \in valid_cols THEN Lowest ELSE SPY_DEFAULT],
   tail |-> <<>>,
   cols |-> PriceCols(valid_cols)]

\* run_backtest(top_n=n, min_history_days=h, mom_window=w) on the price store;
\* list_ok and read_ok tell whether the query of _get_universe and the query
\* of get_aligned_data succeed
RunBacktestOnStore(n, w, h, list_ok, read_ok) ==
  /\ pc = "idle"
  /\ pc' = "done"
  /\ top_n' = n
  /\ mom_window' = w
  /\ min_history_days' = h
  /\ db' = [list_ok |-> list_ok, read_ok |-> read_ok]
  /\ UNCHANGED <<store, optvars, beyond>>
  /\ universe' = get_universe(RawTickers(store), list_ok)
  /\ IF Len(universe') = 0
     THEN /\ result' = "None"
          /\ UNCHANGED <<raw_df, panel, frames, plot_raised>>
     ELSE /\ raw_df' = get_aligned_data(store, universe' \o <<"SPY">>, read_ok)
          /\ LET valid_cols == ValidCols(raw_df', h)
                 k == Cardinality(CleanDays(raw_df', valid_cols))
             IN  IF \/ DOMAIN raw_df' = {}
                    \/ valid_cols = {}
                    \/ k < MIN_OVERLAP
                    \/ PriceCols(valid_cols) = {}
                 THEN /\ result' = "None"
                      /\ UNCHANGED <<panel, frames, plot_raised>>
                 ELSE /\ panel' = CleanPanel(k, valid_cols)
                      /\ Strategy(panel', n, w)

NextStore ==
  \/ \E t \in StoreTickers, h \in Histories : UpdateStockData(t, h)
  \/ \E n \in TopNs, w \in MomWindows, h \in MinHistories,
        list_ok \in BOOLEAN, read_ok \in BOOLEAN :
        RunBacktestOnStore(n, w, h, list_ok, read_ok)

SpecStore == InitStore /\ [][NextStore]_vars

\* -------------------------- run_backtest on histories longer than the average
\* histories of one day more than the window of the moving average
LongHistories == [len : {MA_WINDOW + 1}, gap : {FALSE}]
NextLong ==
  \/ \E t \in StoreTickers, h \in LongHistories : UpdateStockData(t, h)
  \/ \E n \in TopNs, w \in MomWindows, h \in MinHistories,
        list_ok \in BOOLEAN, read_ok \in BOOLEAN :
        RunBacktestOnStore(n, w, h, list_ok, read_ok)
SpecLong == InitStore /\ [][NextLong]_vars

\* ------------------------ run_backtest with a window as long as the panel
NextWindow ==
  \/ \E t \in StoreTickers, h \in Histories : UpdateStockData(t, h)
  \/ \E n \in TopNs, w \in LongMomWindows, h \in MinHistories,
        list_ok \in BOOLEAN, read_ok \in BOOLEAN :
        RunBacktestOnStore(n, w, h, list_ok, read_ok)
SpecWindow == InitStore /\ [][NextWindow]_vars

\* ------------------------------------------------- optimize and main Phase 6
\* the names of one ticker more than optimize takes
WideListing == [i \in 1 .. (MAX_TICKERS + 1) |-> ToString(i)]
\* the returns frames: none, one asset only, too few rows, more tickers than
\* optimize takes (with too few common rows), two assets, and three
\* uncorrelated assets
Markets ==
  {NoData,
   Market(WideListing, MIN_RETURNS - 1, <<>>, <<>>),
   Market(<<"A">>, MIN_RETURNS, <<3>>, <<<<4>>>>),
   Market(<<"A", "B">>, MIN_RETURNS - 1, <<3, 2>>, <<<<4, 0>>, <<0, 1>>>>),
   Market(<<"A", "B", "C">>, MIN_RETURNS, <<3, 2, 1>>,
          <<<<4, 0, 0>>, <<0, 1, 0>>, <<0, 0, 2>>>>)}
    \cup {Market(<<"A", "B">>, MIN_RETURNS, mu, <<<<v, c>>, <<c, 1>>>>) :
            mu \in MeanPairs, v \in Variances, c \in Covariances}

\* no backtest run, no price stored, optimize not called on some returns frame
InitOpt ==
  /\ panel = [warm |-> 0, base |-> BaseRow, tail |-> <<>>, cols |-> {}]
  /\ pc = "idle"
  /\ top_n = 0
  /\ mom_window = 0
  /\ result = "pending"
  /\ plot_raised = FALSE
  /\ market_signal = <<>>
  /\ raw_weights = <<>>
  /\ final_weights = <<>>
  /\ gross_strat_ret = <<>>
  /\ turnover = <<>>
  /\ net_strat_ret = <<>>
  /\ sharpe = ZeroRatio
  /\ store = [t \in StoreTickers |-> NoHistory]
  /\ db = [list_ok |-> TRUE, read_ok |-> TRUE]
  /\ min_history_days = 0
  /\ universe = <<>>
  /\ raw_df = NoFrame
  /\ \E m \in Markets : OptIdle(m)
  /\ BeyondIdle

backtest == <<panel, pc, top_n, mom_window, result, plot_raised, frames,
              front>>
\* what a call of optimize does not change
inputs == <<stored, previous>>
called == <<inputs, all_tickers, target_tickers, market>>

\* optimize up to the first solve: the ticker list (list_ok: its query
\* succeeds), the sample of 50, the read of the prices (read_ok: its query
\* succeeds), the data checks, and the risk-free rate (default_rf when the
\* fetch fails)
OptimizeStart ==
  /\ opc = "idle"
  /\ \E list_ok \in BOOLEAN, read_ok \in BOOLEAN :
       \E target \in Sample(get_all_tickers(stored.assets, list_ok)) :
         /\ all_tickers' = get_all_tickers(stored.assets, list_ok)
         /\ target_tickers' = target
         /\ market' = IF read_ok THEN ReturnsFrame(stored, target) ELSE NoData
  /\ IF market' = NoData
     THEN /\ returned' = [fig |-> "None", portfolios |-> NoTables]
          /\ opc' = "returned"
          /\ UNCHANGED rf_rate
     ELSE \E rate \in {default_rf} \cup {Frac(r, 100) : r \in FetchedRates} :
            /\ rf_rate' = rate
            /\ IF num_assets(market') < MIN_ASSETS \/ market'.rows < MIN_RETURNS
               THEN /\ returned' = [fig |-> "None", portfolios |-> NoTables]
                    /\ opc' = "returned"
               ELSE /\ opc' = "min_vol"
                    /\ UNCHANGED returned
  /\ UNCHANGED <<inputs, res_mv, res_ms, star_points, portfolios, min_vol_val,
                 max_ret_val, frontier_targets, frontier_y, results, saved,
                 backtest,
                 fig_raised, beyond>>

\* A. the min-volatility solve
SolveMinVol ==
  /\ opc = "min_vol"
  /\ opc' = "max_sharpe"
  /\ \E res \in Minimize(market, MinVolSolutions(market)) :
       /\ res_mv' = res
       /\ IF Solved(res)
          THEN /\ min_vol_val' = VarOf(market, res.x)
               /\ star_points' =
                    Append(star_points,
                           Star(market, res.x, "Min Volatility", "gold"))
               /\ portfolios' = Put(portfolios, "weights_min_vol.csv",
                                    Export(market, res.x))
          ELSE UNCHANGED <<min_vol_val, star_points, portfolios>>
  /\ UNCHANGED <<called, rf_rate, res_ms, max_ret_val, frontier_targets,
                 frontier_y, results, returned, saved, backtest,
                 fig_raised, beyond>>

\* B. the max-Sharpe solve, C. the equal-weight table, and D. up to the loop
\* over the frontier levels
SolveMaxSharpe ==
  /\ opc = "max_sharpe"
  /\ \E res \in Minimize(market, MaxSharpeSolutions(market, rf_rate)) :
       LET sp == IF Solved(res)
                 THEN Append(star_points,
                             Star(market, res.x, "Max Sharpe", "red"))
                 ELSE star_points
           mr == IF Solved(res) THEN RetOf(market, res.x) ELSE max_ret_val
           p == IF Solved(res)
                THEN Put(portfolios, "weights_max_sharpe.csv",
                         Export(market, res.x))
                ELSE portfolios
       IN  /\ res_ms' = res
           /\ star_points' = sp
           /\ max_ret_val' = mr
           /\ portfolios' = Backup(market, p)
           /\ IF FrontierEntered(min_vol_val, mr)
              THEN /\ frontier_targets' = target_returns(sp)
                   /\ opc' = "frontier"
              ELSE /\ frontier_targets' = <<>>
                   /\ opc' = "monte_carlo"
  /\ UNCHANGED <<called, rf_rate, res_mv, min_vol_val, frontier_y, results,
                 returned, saved, backtest,
                 fig_raised, beyond>>

\* D. the solves of the frontier levels: either each solve of a level that
\* can be returned succeeds, or none succeeds
SolveFrontier ==
  /\ opc = "frontier"
  /\ opc' = "monte_carlo"
  /\ \E converge \in BOOLEAN :
       frontier_y' =
         IF converge
         THEN SelectSeq(frontier_targets, LAMBDA y : Attainable(market, y))
         ELSE <<>>
  /\ UNCHANGED <<called, rf_rate, res_mv, res_ms, star_points, portfolios,
                 min_vol_val, max_ret_val, frontier_targets, results, returned,
                 saved, backtest,
                 fig_raised, beyond>>

\* what _plot of the optimizer returns: the figure, or None when a call
\* inside its try raised
OptimizerPlot(raised) == IF raised THEN "None" ELSE "fig"

\* E. the Monte Carlo loop, the figure and the return
MonteCarlo ==
  /\ opc = "monte_carlo"
  /\ opc' = "returned"
  /\ \E d \in DrawVectors(num_assets(market)), j \in {0, MC_ITERS - 1} :
       results' = Cloud(d, j)
  /\ \E raised \in BOOLEAN :
       /\ fig_raised' = raised
       /\ returned' = [fig |-> OptimizerPlot(raised), portfolios |-> portfolios]
  /\ UNCHANGED <<called, rf_rate, res_mv, res_ms, star_points, portfolios,
                 min_vol_val, max_ret_val, frontier_targets, frontier_y, saved,
                 backtest, beyond>>

\* Phase 6 of main after optimize returned: the figure and every table of
\* portfolios go into the report
Phase6 ==
  /\ opc = "returned"
  /\ opc' = "saved"
  /\ saved' = [figure |-> returned.fig = "fig",
               data |-> DOMAIN returned.portfolios]
  /\ UNCHANGED <<called, rf_rate, res_mv, res_ms, star_points, portfolios,
                 min_vol_val, max_ret_val, frontier_targets, frontier_y,
                 results, returned, backtest,
                 fig_raised, beyond>>

NextOpt ==
  \/ OptimizeStart
  \/ SolveMinVol
  \/ SolveMaxSharpe
  \/ SolveFrontier
  \/ MonteCarlo
  \/ Phase6

SpecOpt == InitOpt /\ [][NextOpt]_vars

\* ------------------------------------------------ two invocations of optimize
\* optimize is called once more over the same store; nothing of the earlier
\* call is kept but what the caller got and what is remembered here to compare
Reinvoke ==
  /\ opc = "returned"
  /\ previous = NoPrevious
  /\ previous' = [all_tickers |-> all_tickers,
                  target_tickers |-> target_tickers, market |-> market,
                  rf_rate |-> rf_rate,
                  res_mv |-> res_mv, res_ms |-> res_ms, returned |-> returned]
  /\ all_tickers' = <<>>
  /\ target_tickers' = <<>>
  /\ market' = NoData
  /\ opc' = "idle"
  /\ rf_rate' = default_rf
  /\ res_mv' = NotBound
  /\ res_ms' = NotBound
  /\ star_points' = <<>>
  /\ portfolios' = NoTables
  /\ min_vol_val' = Zero
  /\ max_ret_val' = Zero
  /\ frontier_targets' = <<>>
  /\ frontier_y' = <<>>
  /\ results' = <<>>
  /\ returned' = NoReturn
  /\ fig_raised' = FALSE
  /\ UNCHANGED <<stored, saved, backtest, beyond>>

NextTwice ==
  \/ NextOpt
  \/ Reinvoke

SpecTwice == InitOpt /\ [][NextTwice]_vars

\* -------------------------------------------- the table stock_prices by row
\* date.strftime('%Y-%m-%d'): the day without the time of day
strftime(stamp) == stamp.day
\* pd.to_datetime of a stored date: midnight of that day
to_datetime(date) == [day |-> date, late |-> FALSE]
\* the histories yf.Ticker(t).history may return: for each time of
\* StampOrder no row or a row with a close; no row at all when yfinance
\* returns nothing or raises
Downloads ==
  [1 .. Len(StampOrder) -> {<<>>} \cup {<<c>> : c \in TableCloses}]
\* records: the rows (date_str, t, close_price) of the history hist
RECURSIVE Records(_, _, _)
Records(t, hist, n) ==
  IF n = 0 THEN <<>>
  ELSE Records(t, hist, n - 1) \o
         (IF hist[n] = <<>> THEN <<>>
          ELSE <<[date |-> strftime(StampOrder[n]), ticker |-> t,
                  close |-> hist[n][1]]>>)
\* two rows with the same primary key (date, ticker)
SameKey(r, q) == r.date = q.date /\ r.ticker = q.ticker
\* a plain INSERT into a table without the primary key
Upsert_Insert(table, r) == table \cup {r}
\* INSERT OR REPLACE of one row under PRIMARY KEY (date, ticker)
Upsert(table, r) == {q \in table : ~SameKey(q, r)} \cup {r}
\* conn.executemany of the statement over recs
RECURSIVE ExecuteMany(_, _, _)
ExecuteMany(table, recs, n) ==
  IF n = 0 THEN table
  ELSE Upsert(ExecuteMany(table, recs, n - 1), recs[n])

\* the lists of tickers update_stock_data is called with
TickerLists ==
  {<<t>> : t \in TableTickers} \cup {<<"AAPL", "SPY">>}
\* the rows of all tickers of the call, in the order they are written
RECURSIVE AllRecords(_, _, _)
AllRecords(tickers, hists, n) ==
  IF n = 0 THEN <<>>
  ELSE AllRecords(tickers, hists, n - 1) \o
         Records(tickers[n], hists[n], Len(StampOrder))
\* DataManager.update_stock_data(tickers), hists[i] being the history
\* downloaded for tickers[i]
update_stock_data(tickers, hists) ==
  LET recs == AllRecords(tickers, hists, Len(tickers))
  IN  /\ Len(written) + Len(recs) <= MaxWritten
      /\ stock_prices' = ExecuteMany(stock_prices, recs, Len(recs))
      /\ written' = written \o recs
      /\ aligned' = NotRead
      /\ UNCHANGED <<backtest, optvars, testvars, mainvars>>

\* the dates of the set D in rising order
RECURSIVE sort_index(_)
sort_index(D) ==
  IF D = {} THEN <<>>
  ELSE LET first == CHOOSE d \in D : \A e \in D : d.day <= e.day
       IN  <<first>> \o sort_index(D \ {first})
\* df_prices.pivot(index='date', columns='ticker', values='close'): the
\* closes of each cell; pivot raises when a cell has more than one
Cell(rows, date, t) ==
  {r.close : r \in {q \in rows : q.date = date /\ q.ticker = t}}
\* DataManager.get_aligned_data(tickers) on the table (no factor is stored);
\* ok = FALSE: the query raised
AlignedFrame(table, tickers, ok) ==
  LET df_prices == {r \in table : InList(r.ticker, tickers)}
      dates == {r.date : r \in df_prices}
      columns == {r.ticker : r \in df_prices}
      index == sort_index({to_datetime(d) : d \in dates})
  IN  IF ~ok \/ df_prices = {} THEN [status |-> "None", rows |-> <<>>]
      ELSE IF \E d \in dates, t \in columns :
                Cardinality(Cell(df_prices, d, t)) > 1
           THEN [status |-> "raise", rows |-> <<>>]
           ELSE [status |-> "frame",
                 rows |-> [i \in 1 .. Len(index) |->
                             [date |-> index[i],
                              close |-> [t \in columns |->
                                          Cell(df_prices, index[i].day, t)]]]]
\* a caller reads the table through get_aligned_data
GetAlignedData(tickers, ok) ==
  /\ aligned = NotRead
  /\ aligned' = AlignedFrame(stock_prices, tickers, ok)
  /\ UNCHANGED <<stock_prices, written, backtest, optvars, testvars,
                 mainvars>>

InitTable == InitStore
NextTable ==
  \/ \E tickers \in TickerLists :
       \E hists \in [1 .. Len(tickers) -> Downloads] :
         update_stock_data(tickers, hists)
  \/ \E tickers \in TickerLists, ok \in BOOLEAN : GetAlignedData(tickers, ok)
SpecTable == InitTable /\ [][NextTable]_vars

\* ------------------------------------------ the universes of one listing
\* the lists SELECT DISTINCT ticker may return: distinct names
Listings ==
  {L \in UNION {[1 .. n -> ListedNames] : n \in 0 .. MaxListed} :
     \A i \in DOMAIN L, j \in DOMAIN L : L[i] = L[j] => i = j}
\* the store lists the tickers of one listing; nothing was called
InitListing ==
  /\ panel = [warm |-> 0, base |-> BaseRow, tail |-> <<>>, cols |-> {}]
  /\ pc = "idle"
  /\ top_n = 0
  /\ mom_window = 0
  /\ result = "pending"
  /\ plot_raised = FALSE
  /\ market_signal = <<>>
  /\ raw_weights = <<>>
  /\ final_weights = <<>>
  /\ gross_strat_ret = <<>>
  /\ turnover = <<>>
  /\ net_strat_ret = <<>>
  /\ sharpe = ZeroRatio
  /\ store = [t \in StoreTickers |-> NoHistory]
  /\ db = [list_ok |-> TRUE, read_ok |-> TRUE]
  /\ min_history_days = 0
  /\ universe = <<>>
  /\ raw_df = NoFrame
  /\ \E L \in Listings : OptIdle(Market(L, MIN_RETURNS - 1, <<>>, <<>>))
  /\ BeyondIdle
\* BacktestEngine._get_universe() over the listing; ok = FALSE: the query
\* raised
GetUniverse(ok) ==
  /\ pc = "idle"
  /\ pc' = "universe"
  /\ universe' = get_universe(stored.assets, ok)
  /\ db' = [db EXCEPT !.list_ok = ok]
  /\ UNCHANGED <<panel, top_n, mom_window, result, plot_raised, frames, store,
                 min_history_days, raw_df, optvars, beyond>>
\* PortfolioOptimizer._get_all_tickers() over the listing
GetAllTickers(ok) ==
  /\ opc = "idle"
  /\ opc' = "all_tickers"
  /\ all_tickers' = get_all_tickers(stored.assets, ok)
  /\ UNCHANGED <<inputs, target_tickers, market, rf_rate, res_mv, res_ms,
                 star_points, portfolios, min_vol_val, max_ret_val,
                 frontier_targets, frontier_y, results, returned, fig_raised,
                 saved, backtest, beyond>>
NextListing ==
  \/ \E ok \in BOOLEAN : GetUniverse(ok)
  \/ \E ok \in BOOLEAN : GetAllTickers(ok)
SpecListing == InitListing /\ [][NextListing]_vars

\* ---------------------------------------- tests/test_utils.py against main
\* a ticker is the sequence of its characters
Symbols == UNION {[1 .. n -> Letters] : n \in 1 .. MaxSymbolLen}
\* the names the module main binds at its top level
main_module ==
  {"sys", "os", "logging", "datetime", "pd", "Path", "DATA_DIR", "OUTPUT_DIR",
   "DataManager", "MacroRegime", "PortfolioAnalyzer", "MacroEngine",
   "BacktestEngine", "PortfolioOptimizer", "ReportManager", "logger",
   "load_portfolio_from_csv", "main"}
\* from main import name
FromMainImport(name) ==
  IF name \in main_module THEN "bound" ELSE "ImportError"
\* no test run yet, the ticker of the test drawn
InitTests ==
  /\ panel = [warm |-> 0, base |-> BaseRow, tail |-> <<>>, cols |-> {}]
  /\ pc = "idle"
  /\ top_n = 0
  /\ mom_window = 0
  /\ result = "pending"
  /\ plot_raised = FALSE
  /\ market_signal = <<>>
  /\ raw_weights = <<>>
  /\ final_weights = <<>>
  /\ gross_strat_ret = <<>>
  /\ turnover = <<>>
  /\ net_strat_ret = <<>>
  /\ sharpe = ZeroRatio
  /\ store = [t \in StoreTickers |-> NoHistory]
  /\ db = [list_ok |-> TRUE, read_ok |-> TRUE]
  /\ min_history_days = 0
  /\ universe = <<>>
  /\ raw_df = NoFrame
  /\ OptIdle(NoData)
  /\ NoTable
  /\ symbol \in Symbols
  /\ fixed = NotCalled
  /\ MainIdle(TRUE, NoCsv)
\* a test of TestIBKRSymbolFix: the import at the head of the test module,
\* then fix_ibkr_symbol(symbol); without the name in main the import raises
\* and the test has no value to compare
TestIBKRSymbolFix ==
  /\ fixed = NotCalled
  /\ fixed' = [status |-> FromMainImport("fix_ibkr_symbol"), value |-> <<>>]
  /\ UNCHANGED <<symbol, backtest, optvars, tablevars, mainvars>>
NextTests == TestIBKRSymbolFix
SpecTests == InitTests /\ [][NextTests]_vars

\* ------------------------------------------------------------------- main
\* df['Ticker'].astype(str).str.strip().str.upper() on one cell
Cleaned(t) == IF t = " aapl" THEN "AAPL" ELSE t
\* portfolio[k] = v on a dict, kept as the list of its items
RECURSIVE DictPut(_, _, _)
DictPut(d, k, v) ==
  IF d = <<>> THEN <<[Ticker |-> k, Weight |-> v]>>
  ELSE IF Head(d).Ticker = k THEN <<[Ticker |-> k, Weight |-> v]>> \o Tail(d)
       ELSE <<Head(d)>> \o DictPut(Tail(d), k, v)
\* dict(zip(df['Ticker'], df['Weight'])) over the first n rows
RECURSIVE DictOf(_, _)
DictOf(rows, n) ==
  IF n = 0 THEN <<>>
  ELSE DictPut(DictOf(rows, n - 1), Cleaned(rows[n].Ticker), rows[n].Weight)
\* load_portfolio_from_csv(file_path)
load_portfolio_from_csv(file) ==
  IF ~file.exists THEN [kind |-> "None", weights |-> <<>>]
  ELSE IF ~file.readable THEN [kind |-> "None", weights |-> <<>>]
       ELSE [kind |-> "dict", weights |-> DictOf(file.rows, Len(file.rows))]

\* the files my_portfolio.csv may be: missing, not readable as a table with
\* the columns Ticker and Weight, or a table of up to MaxCsvRows rows of
\* weight one half
CsvFiles ==
  {NoCsv, [exists |-> TRUE, readable |-> FALSE, rows |-> <<>>]} \cup
  {[exists |-> TRUE, readable |-> TRUE,
    rows |-> [i \in 1 .. Len(f) |->
                [Ticker |-> f[i], Weight |-> Frac(1, 2)]]] :
     f \in UNION {[1 .. m -> CsvTickers] : m \in 0 .. MaxCsvRows}}
\* main after ReportManager(run_dir)
InitMain ==
  /\ panel = [warm |-> 0, base |-> BaseRow, tail |-> <<>>, cols |-> {}]
  /\ pc = "idle"
  /\ top_n = 0
  /\ mom_window = 0
  /\ result = "pending"
  /\ plot_raised = FALSE
  /\ market_signal = <<>>
  /\ raw_weights = <<>>
  /\ final_weights = <<>>
  /\ gross_strat_ret = <<>>
  /\ turnover = <<>>
  /\ net_strat_ret = <<>>
  /\ sharpe = ZeroRatio
  /\ store = [t \in StoreTickers |-> NoHistory]
  /\ db = [list_ok |-> TRUE, read_ok |-> TRUE]
  /\ min_history_days = 0
  /\ universe = <<>>
  /\ raw_df = NoFrame
  /\ OptIdle(NoData)
  /\ NoTable
  /\ NoTest
  /\ \E exists \in BOOLEAN, file \in CsvFiles : MainIdle(exists, file)

\* where main stands after a phase that raised and went through its except
\* clause, were the exception not caught
AfterPhase_Uncaught(next, outcome) ==
  IF outcome = "raise" THEN "raised" ELSE next
\* where main stands after a phase: its except clause logs and main goes on
AfterPhase(next, outcome) == next
\* reporter.add_text(text)
AddText(rep, text) == [rep EXCEPT !.html_content = Append(@, text)]
\* if fig: reporter.add_figure(fig, tag); save_ok = FALSE: savefig raised
AddFigure(rep, fig, tag, save_ok) ==
  IF fig = "fig" /\ save_ok
  THEN [rep EXCEPT !.html_content = Append(@, tag)]
  ELSE rep
\* what is left unchanged by every phase of main
outside == <<backtest, optvars, tablevars, testvars, db_exists, csv>>

\* Phase 0: the macro regime; outcome "raise": MacroRegime raised
Phase0(outcome) ==
  /\ main_pc = "phase0"
  /\ main_pc' = AfterPhase("phase1", outcome)
  /\ ran' = Append(ran, "macro regime")
  /\ report' = AddText(report, IF outcome = "raise"
                               THEN "Macro Regime: Detection Failed"
                               ELSE "Current Macro Regime")
  /\ UNCHANGED <<my_portfolio, handed, outside>>
\* Phase 1: the database check, with the return of main
Phase1 ==
  /\ main_pc = "phase1"
  /\ main_pc' = IF db_exists THEN "phase2" ELSE "returned"
  /\ ran' = Append(ran, "database check")
  /\ UNCHANGED <<my_portfolio, handed, report, outside>>
\* Phase 2: the portfolio file
Phase2 ==
  /\ main_pc = "phase2"
  /\ main_pc' = "phase3"
  /\ ran' = Append(ran, "portfolio load")
  /\ my_portfolio' = load_portfolio_from_csv(csv)
  /\ UNCHANGED <<handed, report, outside>>
\* what a component called with the portfolio p gives: p.keys() raises for
\* None, otherwise the component returns a figure or None, or raises
Analysed(p, outcome) == IF p.kind = "dict" THEN outcome ELSE "raise"
\* Phase 3: pa.rolling_analyze(my_portfolio)
Phase3(outcome, save_ok) ==
  /\ main_pc = "phase3"
  /\ main_pc' = AfterPhase("phase4", Analysed(my_portfolio, outcome))
  /\ ran' = Append(ran, "micro attribution")
  /\ handed' = Append(handed, my_portfolio)
  /\ report' = AddFigure(report, Analysed(my_portfolio, outcome),
                         "micro_attribution", save_ok)
  /\ UNCHANGED <<my_portfolio, outside>>
\* Phase 4: me.run_analysis(my_portfolio)
Phase4(outcome, save_ok) ==
  /\ main_pc = "phase4"
  /\ main_pc' = AfterPhase("phase5", Analysed(my_portfolio, outcome))
  /\ ran' = Append(ran, "macro sensitivity")
  /\ handed' = Append(handed, my_portfolio)
  /\ report' = AddFigure(report, Analysed(my_portfolio, outcome),
                         "macro_sensitivity", save_ok)
  /\ UNCHANGED <<my_portfolio, outside>>
\* Phase 5: be.run_backtest(...); outcome "raise": BacktestEngine() raised
Phase5(outcome, save_ok) ==
  /\ main_pc = "phase5"
  /\ main_pc' = AfterPhase("phase6", outcome)
  /\ ran' = Append(ran, "backtest")
  /\ report' = AddFigure(report, outcome, "backtest", save_ok)
  /\ UNCHANGED <<my_portfolio, handed, outside>>
\* the pairs opt.optimize() may return to main: (None, {}), or a figure or
\* None with the table of a solve or the equal-weight table
MainReturns ==
  {[fig |-> "None", portfolios |-> NoTables]} \cup
  {[fig |-> f,
    portfolios |-> Put(NoTables, name, <<[Ticker |-> "A", Weight |-> One]>>)] :
     f \in {"fig", "None"},
     name \in {"weights_min_vol.csv", "weights_equal_backup.csv"}}
\* Phase 6 with the call of optimize: outcome "raise": PortfolioOptimizer()
\* raised; save_ok, data_ok: savefig and to_csv of the reporter went through
MainPhase6(outcome, ret, save_ok, data_ok) ==
  /\ main_pc = "phase6"
  /\ main_pc' = AfterPhase("report", outcome)
  /\ ran' = Append(ran, "optimization")
  /\ report' =
       IF outcome = "raise" THEN report
       ELSE [AddFigure(report, ret.fig, "frontier", save_ok)
               EXCEPT !.data = IF data_ok THEN DOMAIN ret.portfolios ELSE {}]
  /\ UNCHANGED <<my_portfolio, handed, outside>>
\* reporter.generate_html(); write_ok = FALSE: writing report.html raised
GenerateHtml(write_ok) ==
  /\ main_pc = "report"
  /\ main_pc' = "end"
  /\ ran' = Append(ran, "report")
  /\ report' = [report EXCEPT !.html_content = Append(@, "</body></html>"),
                              !.written = IF write_ok THEN @ + 1 ELSE @,
                              !.path = IF write_ok THEN "report.html"
                                       ELSE "None"]
  /\ UNCHANGED <<my_portfolio, handed, outside>>

Outcomes == {"fig", "None", "raise"}
NextMain ==
  \/ \E outcome \in {"regime", "raise"} : Phase0(outcome)
  \/ Phase1
  \/ Phase2
  \/ \E outcome \in Outcomes, save_ok \in BOOLEAN : Phase3(outcome, save_ok)
  \/ \E outcome \in Outcomes, save_ok \in BOOLEAN : Phase4(outcome, save_ok)
  \/ \E outcome \in Outcomes, save_ok \in BOOLEAN : Phase5(outcome, save_ok)
  \/ \E outcome \in {"returned", "raise"}, ret \in MainReturns,
        save_ok \in BOOLEAN, data_ok \in BOOLEAN :
        MainPhase6(outcome, ret, save_ok, data_ok)
  \/ \E write_ok \in BOOLEAN : GenerateHtml(write_ok)
SpecMain == InitMain /\ [][NextMain]_vars

\* ------------------------------------- the failures of the two components
\* a run of one of the two components: run_backtest over the price store, or
\* optimize over the returns of the stored tickers
InitFailures == InitStore \/ InitOpt
NextFailures ==
  \/ stored = NoData /\ opc = "idle" /\ NextStore
  \/ (\A t \in StoreTickers : store[t].len = 0) /\ pc = "idle" /\ NextOpt
SpecFailures == InitFailures /\ [][NextFailures]_vars

\* ------------------------------------------------------------------ claims
\* run_backtest has returned its figure: the frames are those of the run
Done == pc = "done" /\ result = "fig"
NDays == PLen(panel)
ZeroRow == [c \in Tickers |-> Zero]
IsZeroRow(row) == \A c \in Tickers : row[c] = Zero
\* the sum of a row of weights, column by column
RowTotal(row) == SumSkipNa(row, Len(Columns))
\* the integer close of ticker c on day t
Close(t, c) == RowAt(panel, t).px[c]

\* C1: every row of the final weight matrix has entries >= 0 and sums to
\* either 0 or 1.
C1_WeightRowsNormalised ==
  Done =>
    \A t \in Days(panel) :
      /\ \A c \in Tickers : RLe(Zero, final_weights[t][c])
      /\ RowTotal(final_weights[t]) \in {Zero, One}

\* C1 witness: one run holds a fully invested row and a row on which the gate
\* is open and momentum is defined but a tie leaves no name selected.
C1_Witness ==
  /\ Done
  /\ \E t \in Days(panel) : RowTotal(final_weights[t]) = One
  /\ \E t \in Days(panel) :
       /\ t >= mom_window
       /\ market_signal[t] = One
       /\ IsZeroRow(raw_weights[t])

\* the panel pan with every day after day t replaced by the row r
PerturbAfter(pan, t, r) ==
  LET kept == IF t + 1 >= pan.warm THEN SubSeq(pan.tail, 1, t + 1 - pan.warm)
              ELSE <<>>
      k == PLen(pan) - t - 1
  IN  [warm |-> IF t + 1 >= pan.warm THEN pan.warm ELSE t + 1,
       base |-> pan.base,
       cols |-> pan.cols,
       tail |-> kept \o SubSeq([i \in 1 .. k |-> r], 1, k)]
\* the rows that replace the future: every instrument at one level
ProbeRows == {r \in Rows : \A c \in Tickers : r.px[c] = r.spy}

\* C2: no look-ahead. A panel that agrees with the panel of the run on every
\* day <= t (and differs on the days after t) gives the same final weight row
\* for day t.
C2_NoLookAhead ==
  Done =>
    \A t \in Days(panel) : \A r \in ProbeRows :
      FinalWeights(PerturbAfter(panel, t, r), top_n, mom_window, t)
        = final_weights[t]

\* C2 witness: replacing the last day changes the weight row of the last day,
\* while the weight row of the day before stays what it was.
C2_Witness ==
  /\ Done
  /\ \E r \in ProbeRows :
       LET alt == PerturbAfter(panel, NDays - 2, r)
       IN  /\ FinalWeights(alt, top_n, mom_window, NDays - 1)
                # final_weights[NDays - 1]
           /\ FinalWeights(alt, top_n, mom_window, NDays - 2)
                = final_weights[NDays - 2]

\* the benchmark close of day t is below / above its 200-day average of day t
\* (days t on which the average is defined)
BelowMA(t) ==
  t + 1 >= MA_WINDOW
  /\ MA_WINDOW * RowAt(panel, t).spy < SpySum(panel, t - MA_WINDOW + 1, t)
AboveMA(t) ==
  t + 1 >= MA_WINDOW
  /\ MA_WINDOW * RowAt(panel, t).spy > SpySum(panel, t - MA_WINDOW + 1, t)

\* C3: if the benchmark close of day t is below its 200-day average of day t,
\* the weight row multiplied with the asset returns of day t+1 (the final
\* weight row of day t) is entirely zero and the gross return of day t+1 is 0.
C3_FlatNextDay ==
  Done =>
    \A t \in Days(panel) :
      (BelowMA(t) /\ t + 1 < NDays) =>
        /\ IsZeroRow(final_weights[t])
        /\ gross_strat_ret[t + 1] = Zero

\* C4: on every one of the first 200 rows the effective gate is 1.
C4_ColdStartGateOpen ==
  Done =>
    \A t \in Days(panel) : t < MA_WINDOW => market_signal[t] = One

\* C5: for every row t >= 1 whose previous row has a defined 200-day average
\* the gate of row t is 1 if benchmark[t-1] > MA200[t-1] and 0 otherwise, and
\* the final weight row is the raw weight row when the gate is 1 and the
\* all-zero row when it is 0.
C5_GateLagAllOrNothing ==
  Done =>
    \A t \in Days(panel) :
      t >= MA_WINDOW =>
        /\ market_signal[t] = IF AboveMA(t - 1) THEN One ELSE Zero
        /\ final_weights[t] =
             IF market_signal[t] = One THEN raw_weights[t] ELSE ZeroRow

\* C5 witness: one run holds a row with the gate open that keeps its raw
\* weights and a row with the gate shut that loses them.
C5_Witness ==
  /\ Done
  /\ \E t \in Days(panel) :
       /\ t >= MA_WINDOW
       /\ market_signal[t] = One
       /\ ~IsZeroRow(final_weights[t])
  /\ \E t \in Days(panel) :
       /\ t >= MA_WINDOW
       /\ market_signal[t] = Zero
       /\ ~IsZeroRow(raw_weights[t])
       /\ IsZeroRow(final_weights[t])

\* C6: on every row t < mom_window the momentum of every ticker is undefined,
\* no ticker is ranked or selected, and the final weight row is all zeros.
C6_ShortHistoryRowsFlat ==
  Done =>
    \A t \in Days(panel) :
      t < mom_window =>
        /\ \A c \in Tickers :
             /\ IsNaN(Momentum(panel, mom_window, t)[c])
             /\ IsNaN(Ranks(Momentum(panel, mom_window, t))[c])
        /\ IsZeroRow(raw_weights[t])
        /\ IsZeroRow(final_weights[t])

\* C6 witness: a run whose row 0 has the gate open (and a later row of the
\* short history has it shut).
C6_Witness ==
  /\ Done
  /\ mom_window = 2
  /\ market_signal[0] = One
  /\ market_signal[1] = Zero
  /\ IsZeroRow(final_weights[0])

\* the mom_window-day return of a on day t strictly exceeds that of b
\* (p[t]/p[t-w] compared by cross-multiplication; closes are positive)
Beats(t, a, b) ==
  Close(t, a) * Close(t - mom_window, b) > Close(t, b) * Close(t - mom_window, a)
Ties(t, a, b) ==
  Close(t, a) * Close(t - mom_window, b) = Close(t, b) * Close(t - mom_window, a)

\* C7: with top_n = 1, on every row where one ticker's return strictly exceeds
\* that of every other ticker, that ticker alone is selected with raw weight 1
\* (and final weight 1 when the gate is 1).
C7_SoleWinner ==
  (Done /\ top_n = 1) =>
    \A t \in Days(panel) : \A a \in Tickers :
      (t >= mom_window /\ \A b \in Tickers \ {a} : Beats(t, a, b)) =>
        /\ raw_weights[t][a] = One
        /\ \A b \in Tickers \ {a} : raw_weights[t][b] = Zero
        /\ market_signal[t] = One => final_weights[t][a] = One

\* C7 witness: the winner holds the whole portfolio on a row with the gate
\* open while the other tickers tie among themselves.
C7_Witness ==
  /\ Done
  /\ top_n = 1
  /\ \E t \in Days(panel) : \E a \in Tickers :
       /\ t >= mom_window
       /\ \A b \in Tickers \ {a} : Beats(t, a, b)
       /\ \A b, c \in Tickers \ {a} : Ties(t, b, c)
       /\ market_signal[t] = One
       /\ final_weights[t][a] = One

\* twice the descending average rank of c on day t: the g names that beat c
\* come first, the e names tied with c (c included) share g+1 .. g+e
TwiceAvgRank(t, c) ==
  LET g == Cardinality({d \in Tickers : Beats(t, d, c)})
      e == Cardinality({d \in Tickers : Ties(t, d, c)})
  IN  2 * g + e + 1
Selected(t) == {c \in Tickers : raw_weights[t][c] # Zero}

\* C8: a ticker is selected on a row iff the average rank of its momentum is
\* <= top_n, so tied tickers are selected together or not at all.
C8_AverageRankSelection ==
  Done =>
    \A t \in Days(panel) :
      /\ t < mom_window => Selected(t) = {}
      /\ t >= mom_window =>
           /\ \A c \in Tickers :
                c \in Selected(t) <=> TwiceAvgRank(t, c) <= 2 * top_n
           /\ \A c, d \in Tickers :
                Ties(t, c, d) => (c \in Selected(t) <=> d \in Selected(t))

\* C8 witness: one run holds a row with more than top_n names and a row with
\* fewer than top_n names although at least top_n tickers are ranked.
C8_Witness ==
  /\ Done
  /\ Cardinality(Tickers) >= top_n
  /\ \E t \in Days(panel) :
       t >= mom_window /\ Cardinality(Selected(t)) > top_n
  /\ \E t \in Days(panel) :
       t >= mom_window /\ Cardinality(Selected(t)) < top_n

\* the return of ticker c on day t >= 1: p[t]/p[t-1] - 1
DayReturn(t, c) == Frac(Close(t, c) - Close(t - 1, c), Close(t - 1, c))
RECURSIVE LaggedDot(_, _)
\* the sum over the first k columns of final_weight[t-1] x asset_return[t]
LaggedDot(t, k) ==
  IF k = 0 THEN Zero
  ELSE RAdd(LaggedDot(t, k - 1),
            RMul(final_weights[t - 1][Columns[k]], DayReturn(t, Columns[k])))

\* C9: the gross strategy return of day t >= 1 is the sum over tickers of
\* final_weight[t-1] x asset_return[t]; on row 0 it is 0.
C9_WeightsLagOneDay ==
  Done =>
    \A t \in Days(panel) :
      gross_strat_ret[t] = IF t = 0 THEN Zero ELSE LaggedDot(t, Len(Columns))

\* C9 witness: a day on which the weights held from the day before earn a
\* non-zero return.
C9_Witness ==
  /\ Done
  /\ \E t \in Days(panel) :
       /\ t >= 1
       /\ gross_strat_ret[t] # Zero
       /\ ~IsZeroRow(final_weights[t - 1])

RECURSIVE AbsDelta(_, _, _)
\* the sum over the first k columns of |cur - prev|
AbsDelta(cur, prev, k) ==
  IF k = 0 THEN Zero
  ELSE RAdd(AbsDelta(cur, prev, k - 1),
            RAbs(RSub(cur[Columns[k]], prev[Columns[k]])))

\* C10: the turnover of row t >= 1 is the sum over tickers of
\* |final_weight[t] - final_weight[t-1]|; row 0 is compared against all-zero
\* weights.
C10_Turnover ==
  Done =>
    \A t \in Days(panel) :
      turnover[t] =
        AbsDelta(final_weights[t],
                 IF t = 0 THEN ZeroRow ELSE final_weights[t - 1],
                 Len(Columns))

\* C10 witness: a run with a day that trades into the portfolio and a day
\* that trades out of it.
C10_Witness ==
  /\ Done
  /\ \E t \in Days(panel) :
       /\ t >= 1
       /\ IsZeroRow(final_weights[t - 1])
       /\ turnover[t] = One
  /\ \E t \in Days(panel) :
       /\ t >= 1
       /\ IsZeroRow(final_weights[t])
       /\ turnover[t] = One

\* the run left no frame and no metric behind
NoMetrics ==
  /\ final_weights = <<>>
  /\ net_strat_ret = <<>>
  /\ sharpe = ZeroRatio
\* the columns of the aligned frame that stay: the benchmark, and each ticker
\* with at least min_history_days closes
KeptCols ==
  {c \in DOMAIN raw_df : c = "SPY" \/ Cardinality(raw_df[c]) >= min_history_days}
\* the number of rows of the aligned frame without a gap in a kept column
GaplessRows ==
  Cardinality({a \in 0 .. 200 :
                 /\ \E c \in DOMAIN raw_df : a \in raw_df[c]
                 /\ \A c \in KeptCols : a \in raw_df[c]})

\* C11: run_backtest returns None, with no metric computed, whenever the
\* aligned panel is missing or empty or fewer than 126 rows remain after the
\* short-history tickers are dropped and the rows with a gap removed; a figure
\* is only ever built from a cleaned panel of at least 126 rows.
C11_FailureOnBadPanel ==
  pc = "done" =>
    /\ (DOMAIN raw_df = {} \/ GaplessRows < MIN_OVERLAP) =>
          (result = "None" /\ NoMetrics)
    /\ result = "fig" =>
          (PLen(panel) = GaplessRows /\ GaplessRows >= MIN_OVERLAP)

\* C11 witness: a run that fails on a panel one row short of 126 after a
\* short-history ticker was dropped.
C11_Witness ==
  /\ pc = "done"
  /\ result = "None"
  /\ DOMAIN raw_df # {}
  /\ KeptCols # DOMAIN raw_df
  /\ KeptCols \ {"SPY"} # {}
  /\ GaplessRows = MIN_OVERLAP - 1

\* every day of the run has the same excess return
ConstantExcess ==
  \A t \in Days(panel) :
    ExcessRet(net_strat_ret, t) = ExcessRet(net_strat_ret, 0)

\* C12: a run whose daily excess returns have zero standard deviation reports
\* a Sharpe ratio of exactly 0 and still returns its figure.
C12_ZeroStdSharpeZero ==
  (pc = "done" /\ PLen(panel) >= MIN_OVERLAP) =>
    /\ result = Plot(plot_raised)
    /\ ConstantExcess => sharpe = ZeroRatio

\* C12 witness: prices moved, yet the strategy stayed flat on every day, so
\* the excess return is the same on every day and the Sharpe ratio is 0.
C12_Witness ==
  /\ Done
  /\ \E t \in Days(panel) : \E c \in Tickers : Close(t, c) # Close(0, c)
  /\ ConstantExcess
  /\ sharpe = ZeroRatio

\* the position of the name t in the list L
PosIn(L, t) == CHOOSE i \in 1 .. Len(L) : L[i] = t
\* u holds exactly the names of raw that are not in X, each once, in the order
\* of raw
IsFiltered(u, raw, X) ==
  /\ \A i \in 1 .. Len(u) : InList(u[i], raw) /\ u[i] \notin X
  /\ \A j \in 1 .. Len(raw) : raw[j] \notin X => InList(raw[j], u)
  /\ \A i, j \in 1 .. Len(u) :
       i < j => PosIn(raw, u[i]) < PosIn(raw, u[j])
NamesOf(L) == {L[i] : i \in 1 .. Len(L)}

DataPassed ==
  num_assets(market) >= MIN_ASSETS /\ market.rows >= MIN_RETURNS
\* optimize returned after its data checks passed
Completed == opc \in {"returned", "saved"} /\ DataPassed
\* the solve returned and reported success
Succeeded(res) == res.status = "ok"
EqualTable ==
  [i \in 1 .. num_assets(market) |->
     [Ticker |-> market.assets[i], Weight |-> Frac(1, num_assets(market))]]

\* C14: when optimize returns after its data checks, the table of an
\* objective is among the returned tables exactly when the solve of that
\* objective succeeded (a solve that raised or did not converge only leaves
\* its own table out), and the equal-weight table, every asset at 1/N, is
\* returned exactly when both solves failed and is then the only table
C14_FailedSolveOmitted ==
  Completed =>
    LET out == returned.portfolios
    IN  /\ "weights_min_vol.csv" \in DOMAIN out <=> Succeeded(res_mv)
        /\ "weights_max_sharpe.csv" \in DOMAIN out <=> Succeeded(res_ms)
        /\ "weights_equal_backup.csv" \in DOMAIN out
              <=> ~Succeeded(res_mv) /\ ~Succeeded(res_ms)
        /\ "weights_equal_backup.csv" \in DOMAIN out =>
              /\ DOMAIN out = {"weights_equal_backup.csv"}
              /\ out["weights_equal_backup.csv"] = EqualTable
C14_Witness ==
  /\ Completed
  /\ res_mv.status = "raise"
  /\ res_ms.status = "ok"
  /\ DOMAIN returned.portfolios = {"weights_max_sharpe.csv"}

BothFailed == ~Succeeded(res_mv) /\ ~Succeeded(res_ms)
\* C15 as stated: when both solves failed, optimize returns no weight table
\* at all
C15_NoTableWhenBothFail ==
  Completed /\ BothFailed => DOMAIN returned.portfolios = {}
\* C15: when both solves failed, optimize returns the figure and the
\* equal-weight table as its only weight table, and Phase 6 of main saves
\* that table; the result without any table and without figure is returned
\* exactly when the data checks fail, and nothing is saved then
C15_BackupWhenBothFail ==
  /\ Completed /\ BothFailed =>
        /\ returned.fig = OptimizerPlot(fig_raised)
        /\ DOMAIN returned.portfolios = {"weights_equal_backup.csv"}
        /\ opc = "saved" => saved.data = {"weights_equal_backup.csv"}
  /\ opc \in {"returned", "saved"} =>
        /\ DOMAIN returned.portfolios = {} <=> ~DataPassed
        /\ returned.fig = "None" <=> (~DataPassed \/ fig_raised)
        /\ opc = "saved" /\ ~DataPassed => saved = NothingSaved
C15_Witness ==
  /\ opc = "saved"
  /\ DataPassed
  /\ res_mv.status = "fail"
  /\ res_ms.status = "raise"
  /\ saved.data = {"weights_equal_backup.csv"}

\* both solves of optimize are over
SolvesDone ==
  opc \in {"frontier", "monte_carlo", "returned", "saved"} /\ DataPassed
\* the 20 solves of the frontier levels are attempted
SweepRuns == Len(frontier_targets) = FRONTIER_POINTS
\* C16: once both solves are over, the frontier sweep runs exactly when both
\* the min-volatility and the max-Sharpe solve succeeded, and no frontier
\* point is produced when either failed
C16_SweepIffBothSolved ==
  SolvesDone =>
    /\ SweepRuns <=> Succeeded(res_mv) /\ Succeeded(res_ms)
    /\ ~(Succeeded(res_mv) /\ Succeeded(res_ms)) =>
          /\ frontier_targets = <<>>
          /\ frontier_y = <<>>

\* the frontier levels are built
FrontierBuilt == SolvesDone /\ SweepRuns
\* the returns of the two solved portfolios
mv_ret == RetOf(market, res_mv.x)
ms_ret == RetOf(market, res_ms.x)
\* x - y over the least common denominator
Gap(x, y) == RAddLcm(x, <<-y[1], y[2]>>)
\* the levels are 20 and evenly spaced
TwentyEven(t) ==
  /\ Len(t) = 20
  /\ \A i \in 1 .. 19 : Gap(t[i + 1], t[i]) = Gap(t[2], t[1])
\* C17 as stated: the levels are 20, evenly spaced, from the return of the
\* min-volatility portfolio to 1.1 times the return of the max-Sharpe
\* portfolio
C17_UpToMaxSharpeReturn ==
  FrontierBuilt =>
    /\ TwentyEven(frontier_targets)
    /\ frontier_targets[1] = mv_ret
    /\ frontier_targets[20] = RMul(ms_ret, Frac(11, 10))
\* C17: the levels are 20, evenly spaced, from the return of the
\* min-volatility portfolio to 1.1 times the larger of the returns of the
\* min-volatility and the max-Sharpe portfolio
C17_UpToLargerReturn ==
  FrontierBuilt =>
    /\ TwentyEven(frontier_targets)
    /\ frontier_targets[1] = mv_ret
    /\ frontier_targets[20] = RMul(RMax(mv_ret, ms_ret), Frac(11, 10))
C17_Witness ==
  /\ FrontierBuilt
  /\ RGt(mv_ret, ms_ret)
  /\ frontier_targets[20] = RMul(mv_ret, Frac(11, 10))

\* the weights x sum to 1 within 1e-6 and each lies in [0, 1]
ValidWeights(x) ==
  /\ RLe(RAbs(Gap(RSum(x, Len(x)), One)), Frac(1, 1000000))
  /\ \A i \in 1 .. Len(x) : RLe(Zero, x[i]) /\ RLe(x[i], One)
\* the solved results: the vectors the two solves handed to star_points and
\* to the weight tables
SolvedResults ==
  {r \in {res_mv, res_ms} : Succeeded(r)}
\* C18: every solved result (a solve of the min-volatility or the max-Sharpe
\* objective that reported success) has as many weights as
\* assets, each in [0, 1], summing to 1 within 1e-6
C18_SolvedWeightsValid ==
  DataPassed =>
    \A r \in SolvedResults :
      Len(r.x) = num_assets(market) /\ ValidWeights(r.x)
C18_Witness ==
  /\ SolvesDone
  /\ Succeeded(res_mv)
  /\ Succeeded(res_ms)
  /\ res_mv.x # res_ms.x
  /\ \E i \in 1 .. num_assets(market) : res_ms.x[i] = One

\* the returns frame has exactly two assets, uncorrelated, with variances
\* 0.04 and 0.01
TwoUncorrelated ==
  /\ DataPassed
  /\ num_assets(market) = 2
  /\ market.cov = <<<<4, 0>>, <<0, 1>>>>
\* x lies within 1e-3 of y
Near(x, y) == RLe(RAbs(Gap(x, y)), Frac(1, 1000))
\* C19: on two uncorrelated assets with variances 0.04 and 0.01, every
\* long-only fully-invested weight vector farther than 1e-3 from (0.2, 0.8)
\* has a larger volatility objective than (0.2, 0.8), and a successful
\* min-volatility solve returns weights within 1e-3 of (0.2, 0.8)
C19_MinVolClosedForm ==
  TwoUncorrelated =>
    /\ \A k \in Feasible(market) :
          \/ Near(Weights(k)[1], Frac(2, 10)) /\ Near(Weights(k)[2], Frac(8, 10))
          \/ portfolio_volatility(market, k) >
               portfolio_volatility(market, <<(2 * GridSteps) \div 10,
                                              (8 * GridSteps) \div 10>>)
    /\ Succeeded(res_mv) =>
          /\ Near(res_mv.x[1], Frac(2, 10))
          /\ Near(res_mv.x[2], Frac(8, 10))
C19_Witness ==
  /\ TwoUncorrelated
  /\ opc = "max_sharpe"
  /\ Succeeded(res_mv)
  /\ res_mv.x = <<Frac(1, 5), Frac(4, 5)>>
  /\ min_vol_val = Frac(8, 1000)

\* the number of weight vectors of the Monte Carlo loop
RECURSIVE CloudSize(_, _)
CloudSize(runs, n) == IF n = 0 THEN 0 ELSE CloudSize(runs, n - 1) + runs[n].n
\* w has no negative component and sums to 1 within 1e-9
OnSimplex(w) ==
  /\ \A i \in 1 .. Len(w) : RLe(Zero, w[i])
  /\ RLe(RAbs(Gap(RSum(w, Len(w)), One)), Frac(1, 1000000000))
\* C20: every call of optimize that passes its data checks returns with
\* exactly 5000 Monte Carlo weight vectors of N weights each, every one
\* without negative component and summing to 1, whatever the draws were and
\* whether or not the solves succeeded
C20_CloudOnSimplex ==
  Completed =>
    /\ CloudSize(results, Len(results)) = 5000
    /\ \A r \in 1 .. Len(results) :
          /\ Len(results[r].w) = num_assets(market)
          /\ OnSimplex(results[r].w)

\* the solved weight of ticker t in the result res
SolvedWeight(res, t) ==
  res.x[CHOOSE i \in 1 .. num_assets(market) : market.assets[i] = t]
\* tab holds exactly the tickers of solved weight above 0.0001 in res, each
\* once and with that weight
ExactlyAbove(tab, res) ==
  /\ {tab[r].Ticker : r \in 1 .. Len(tab)} =
       {t \in asset_names(market) : RGt(SolvedWeight(res, t), Frac(1, 10000))}
  /\ \A r, q \in 1 .. Len(tab) : tab[r].Ticker = tab[q].Ticker => r = q
  /\ \A r \in 1 .. Len(tab) :
        /\ tab[r].Weight = SolvedWeight(res, tab[r].Ticker)
        /\ RGt(tab[r].Weight, Frac(1, 10000))
\* C21: when optimize returns after its data checks, it returns one weight
\* table per solved objective, and the table of a solved objective holds
\* exactly the tickers whose solved weight is above 0.0001, each once and
\* with its solved weight, and no row of weight 0.0001 or less
C21_TablesFiltered ==
  Completed =>
    LET out == returned.portfolios
    IN  /\ Succeeded(res_mv) =>
              /\ "weights_min_vol.csv" \in DOMAIN out
              /\ ExactlyAbove(out["weights_min_vol.csv"], res_mv)
        /\ Succeeded(res_ms) =>
              /\ "weights_max_sharpe.csv" \in DOMAIN out
              /\ ExactlyAbove(out["weights_max_sharpe.csv"], res_ms)
        /\ Succeeded(res_mv) \/ Succeeded(res_ms) =>
              Cardinality(DOMAIN out) =
                Cardinality({r \in {"mv", "ms"} :
                               \/ r = "mv" /\ Succeeded(res_mv)
                               \/ r = "ms" /\ Succeeded(res_ms)})
C21_Witness ==
  /\ Completed
  /\ Succeeded(res_mv)
  /\ Succeeded(res_ms)
  /\ Len(returned.portfolios["weights_min_vol.csv"]) = 3
  /\ Len(returned.portfolios["weights_max_sharpe.csv"]) = 1

\* a second call of optimize over the same store has returned
SecondReturned == previous # NoPrevious /\ opc \in {"returned", "saved"}
\* the table of name f in the tables p, no table when there is none
TableOf(p, f) == IF f \in DOMAIN p THEN p[f] ELSE <<>>
\* both calls passed their data checks
BothPassed ==
  /\ DataPassed
  /\ num_assets(previous.market) >= MIN_ASSETS
  /\ previous.market.rows >= MIN_RETURNS
SameRun ==
  /\ market = previous.market
  /\ rf_rate = previous.rf_rate
  /\ res_mv.status = previous.res_mv.status
  /\ res_ms.status = previous.res_ms.status
BacktestValues == {"fig", "None"}
\* the pair (None, {})
NoResult == [fig |-> "None", portfolios |-> NoTables]
StoredCloses(r) == {q.close : q \in {x \in stock_prices : SameKey(x, r)}}
\* the last row written with the key of row r
LastWritten(r) ==
  LET at == {i \in 1 .. Len(written) : SameKey(written[i], r)}
  IN  written[CHOOSE i \in at : \A j \in at : j <= i]
\* C24: after any sequence of update_stock_data calls the table holds one
\* row per (date, ticker), which carries the close written last for it,
\* and the frame get_aligned_data returns has strictly increasing dates and
\* at most one close per date and ticker, the close the table holds
C24_OneClosePerDateTicker ==
  /\ \A r \in stock_prices, q \in stock_prices : SameKey(r, q) => r = q
  /\ \A i \in 1 .. Len(written) :
        StoredCloses(written[i]) = {LastWritten(written[i]).close}
  /\ aligned.status # "raise"
  /\ aligned.status = "frame" =>
        /\ \A i \in 1 .. (Len(aligned.rows) - 1) :
              aligned.rows[i].date.day < aligned.rows[i + 1].date.day
        /\ \A i \in 1 .. Len(aligned.rows) :
              \A t \in DOMAIN aligned.rows[i].close :
                /\ Cardinality(aligned.rows[i].close[t]) <= 1
                /\ \A r \in stock_prices :
                      (r.ticker = t /\ r.date = aligned.rows[i].date.day)
                        => aligned.rows[i].close[t] = {r.close}
\* a frame of two dates and two tickers read after a close was written a
\* second time with another value
C24_Witness ==
  /\ aligned.status = "frame"
  /\ Len(aligned.rows) = 2
  /\ DOMAIN aligned.rows[1].close = TableTickers
  /\ \E i \in 1 .. Len(written), j \in 1 .. Len(written) :
        /\ i < j
        /\ SameKey(written[i], written[j])
        /\ written[i].close # written[j].close

\* ---- tests/test_utils.py
\* the ticker sym with every hyphen replaced by a space
HyphenToSpace(sym) ==
  [i \in 1 .. Len(sym) |-> IF sym[i] = "-" THEN " " ELSE sym[i]]
\* C25: fix_ibkr_symbol, imported from main, returns the ticker with every
\* hyphen replaced by a space, and a ticker without hyphen unchanged
C25_HyphenToSpace ==
  fixed # NotCalled =>
    /\ fixed.status = "bound"
    /\ fixed.value = HyphenToSpace(symbol)

\* ---- the exclusion lists
\* C26: no ticker of FULL_BLOCKLIST is in the universe of the backtest or in
\* the ticker list of the optimizer, and over one listing the two keep the
\* same tickers
C26_FullBlocklistExcluded ==
  /\ pc = "universe" =>
        \A i \in 1 .. Len(universe) : universe[i] \notin FULL_BLOCKLIST
  /\ opc = "all_tickers" =>
        \A i \in 1 .. Len(all_tickers) : all_tickers[i] \notin FULL_BLOCKLIST
  /\ (pc = "universe" /\ opc = "all_tickers") =>
        get_universe(stored.assets, TRUE) = get_all_tickers(stored.assets, TRUE)

\* ---- the benchmark missing
\* the run reached the strategy on a cleaned panel without the column SPY
SpyAbsent == pc = "done" /\ market_signal # <<>> /\ "SPY" \notin DOMAIN raw_df
\* C27: without SPY in the cleaned panel the gate is 1 on every row and
\* every final weight row is the raw weight row
C27_NoSpyGateOpen ==
  SpyAbsent =>
    \A t \in Days(panel) :
      /\ market_signal[t] = One
      /\ final_weights[t] = raw_weights[t]

\* ---- main
\* C28: when my_portfolio.csv does not exist, the portfolio handed to the
\* micro-attribution phase and to the macro-sensitivity phase is a non-empty
\* mapping from ticker to weight, never None
C28_DefaultPortfolio ==
  ~csv.exists =>
    \A i \in 1 .. Len(handed) :
      handed[i].kind = "dict" /\ Len(handed[i].weights) > 0

\* the phases of main in their order
PhaseOrder ==
  <<"macro regime", "database check", "portfolio load", "micro attribution",
    "macro sensitivity", "backtest", "optimization", "report">>
\* how often generate_html closed the page
Closings ==
  Cardinality({i \in 1 .. Len(report.html_content) :
                 report.html_content[i] = "</body></html>"})
\* C29: the phases of main run in the fixed order; no exception and no
\* absent result of a phase keeps main from going on to the next phase; a
\* run with the database file ends after generate_html ran exactly once, at
\* the end; a run without it returns after the database check, with no
\* later phase and no report
C29_PhasesInOrder ==
  /\ Len(ran) <= Len(PhaseOrder)
  /\ ran = SubSeq(PhaseOrder, 1, Len(ran))
  /\ main_pc \in {"phase0", "phase1", "phase2", "phase3", "phase4", "phase5",
                  "phase6", "report", "end", "returned"}
  /\ main_pc \notin {"end", "returned"} => ENABLED NextMain
  /\ main_pc = "end" =>
        /\ db_exists
        /\ ran = PhaseOrder
        /\ Closings = 1
        /\ report.html_content[Len(report.html_content)] = "</body></html>"
        /\ report.written = IF report.path = "report.html" THEN 1 ELSE 0
  /\ main_pc = "returned" =>
        /\ ~db_exists
        /\ ran = SubSeq(PhaseOrder, 1, 2)
  /\ main_pc # "end" => (Closings = 0 /\ report.written = 0)
  /\ ~db_exists => main_pc \in {"phase0", "phase1", "returned"}
\* a run that ended with its report although every phase that can fail
\* raised or returned nothing
C29_Witness ==
  /\ main_pc = "end"
  /\ report.written = 1
  /\ report.html_content =
       <<"Macro Regime: Detection Failed", "</body></html>">>
  /\ report.data = {}
  /\ my_portfolio.kind = "None"

\* ---- the window of the momentum
\* the run cleaned a panel with a stock column that has the 126 rows of the
\* overlap check and no more rows than mom_window
ShortForWindow ==
  /\ pc = "done"
  /\ KeptCols \ {"SPY"} # {}
  /\ GaplessRows >= MIN_OVERLAP
  /\ GaplessRows <= mom_window
\* C30: the overlap check asks for 126 rows whatever mom_window is: on a
\* cleaned panel of at least 126 and at most mom_window rows run_backtest
\* goes through the strategy and returns what _plot returns, with an all-zero
\* weight row on every day, zero turnover, and a NAV of 100 on every row
C30_ShortPanelFlat ==
  /\ pc = "done" =>
        (result = "fig" => GaplessRows >= MIN_OVERLAP)
  /\ ShortForWindow =>
        /\ PLen(panel) = GaplessRows
        /\ result = Plot(plot_raised)
        /\ \A t \in Days(panel) :
              /\ IsZeroRow(raw_weights[t])
              /\ IsZeroRow(final_weights[t])
              /\ turnover[t] = Zero
              /\ net_strat_ret[t] = Zero
        /\ LET nav == cum_strat(net_strat_ret, PLen(panel))
           IN  \A t \in Days(panel) : nav[t + 1] = RInt(NAV_START)
\* a run with the default window of 126 days on a panel of exactly 126 rows
\* that returned its figure
C30_Witness ==
  /\ ShortForWindow
  /\ mom_window = MIN_OVERLAP
  /\ GaplessRows = MIN_OVERLAP
  /\ top_n = 2
  /\ Cardinality(KeptCols \ {"SPY"}) = 2
  /\ result = "fig"
====
